---- MODULE Spec2Model ----
(***************************************************************************)
(* Retrieval and embedding-orchestration core of the Enterprise RAG        *)
(* system: the Gemini credential rotation service (api_rotation.py), the   *)
(* vector store with its durable ChromaDB collection and in-memory mirror  *)
(* (vector_store.py) and the embeddings orchestrator (embeddings.py).      *)
(***************************************************************************)
EXTENDS Integers, Sequences, FiniteSets, TLC

(***************************************************************************)
(* Bounds of the model.                                                    *)
(***************************************************************************)
NumKeys == 2
NumReqs == 2
MaxTicks == 2
MaxErrors == 2
MaxSuccess == 1
MaxBatches == 1
MaxSubBatches == 2
MaxIds == 2
MaxUpsert == 2
MaxMem == 2
MaxTexts == 2
MaxVariants == 3
MaxDocs == 2
PadDocs == 14

(***************************************************************************)
(* Program constants.                                                      *)
(***************************************************************************)
quota_reset_time == 24
SENTENCE_TRANSFORMER_DIM == 384
GEMINI_EMBEDDING_DIMENSION == 3072
OPENAI_DIM == 1536
FALLBACK_DIM == 768
HASH_VALUES == 8
DOC_COUNT_HEURISTIC == 3500
SIMILARITY_THRESHOLD == 25
MIN_VARIANT_THRESHOLD == 15
THRESHOLD_RELAX == 10
TERM_BOOST == 5
MULTI_MATCH_BONUS == 10
LEXICAL_BOOST == 15
BOTH_BOOST == 12
RERANK_CANDIDATES == 15
BRANCH_TOP_K == 15
MAX_N_RESULTS == 100

None == -1

VARIABLES
  \* GeminiAPIRotationService
  current_key_index,   \* index of the current credential in api_keys
  key_status,          \* per credential: the status dict
  clients,             \* credentials for which a client object exists
  now,                 \* datetime.now(), in hours
  req,                 \* the calls in progress (coroutines of the event loop)
  quotaRun,            \* history: the call saw one usable credential at its start and only 429 since
  dupReport            \* history: another call reported a failure of the credential this call awaits

rotVars == <<current_key_index, key_status, clients, now, req, quotaRun, dupReport>>

VARIABLES
  \* VectorStoreService
  chroma_collection,   \* TRUE iff self.chroma_collection is not None
  chroma_docs,         \* the durable collection: chunk id -> chunk
  chroma_dim,          \* dimensionality the collection was created with (None: not yet fixed)
  preloaded,           \* number of further chunks persisted by earlier runs (in both layers)
  in_memory_vectors,   \* the in-memory mirror, a list of chunks
  up,                  \* the upsert_documents call in progress
  found,               \* what the last search_similar_documents call returned
  deleted              \* what the last delete call returned

storeVars == <<chroma_collection, chroma_docs, chroma_dim, preloaded,
               in_memory_vectors, up, found, deleted>>

VARIABLES
  \* EmbeddingsService
  gemini_client,         \* "absent" (no attribute), "ok", "broken" (attribute is None)
  openai_client,         \* "absent", "ok"
  sentence_transformer,  \* "absent", "ok", "broken"
  primary_provider,
  fallback_provider,
  dimensions,
  use_rotation,
  active_provider,
  active_dimensions,
  emb_out                \* what the last create_embeddings / create_single_embedding call returned

embVars == <<gemini_client, openai_client, sentence_transformer, primary_provider,
             fallback_provider, dimensions, use_rotation, active_provider,
             active_dimensions, emb_out>>

VARIABLES
  \* a caller of the retrieval entry points
  mq,                    \* a search_similar_documents_multi_query call: arguments and result
  hy,                    \* a hybrid_search call: the branch results, arguments and result
  ix                     \* HybridRAGService: the indexed corpus and its two indexes

callVars == <<mq, hy, ix>>

vars == <<rotVars, storeVars, embVars, callVars>>

Keys == 0 .. (NumKeys - 1)
Reqs == 1 .. NumReqs

ApiErrorCodes == {429, 401, 403, 500}

RECURSIVE SumOver(_, _)
SumOver(f, S) ==
  IF S = {} THEN 0
  ELSE LET x == CHOOSE y \in S : TRUE IN f[x] + SumOver(f, S \ {x})

(***************************************************************************)
(* GeminiAPIRotationService                                                *)
(***************************************************************************)

\* the status dict of a credential whose client was created
FreshStatus ==
  [active |-> TRUE, quota_exhausted |-> FALSE, last_error_time |-> None,
   error_count |-> 0, successful_requests |-> 0]

\* the status dict of a credential whose client creation raised
FailedStatus ==
  [active |-> FALSE, quota_exhausted |-> FALSE, last_error_time |-> 0,
   error_count |-> 1, successful_requests |-> 0]

IdleReq ==
  [pc |-> "idle", attempt |-> 0, key |-> 0, batches |-> 0, result |-> "none",
   texts |-> 0, embeddings |-> 0]

\* a call that has returned: its locals are gone, the caller holds its result
\* until it calls again
DoneReq(res) == [IdleReq EXCEPT !.pc = "done", !.result = res]

Usable(ks, k) == ks[k].active /\ ~ks[k].quota_exhausted

\* the derived status of the data model: active, quota_exhausted or invalid
StatusOf(ks, k) ==
  IF ks[k].quota_exhausted THEN "quota_exhausted"
  ELSE IF ks[k].active THEN "active"
  ELSE "invalid"

\* a cool-down test that also passes at exactly quota_reset_time
CooledDownAtBoundary(ks, k, t) ==
  /\ ks[k].quota_exhausted
  /\ ks[k].last_error_time # None
  /\ t - ks[k].last_error_time >= quota_reset_time

CooledDown(ks, k, t) ==
  /\ ks[k].quota_exhausted
  /\ ks[k].last_error_time # None
  /\ t - ks[k].last_error_time > quota_reset_time

\* a reset that reactivates the credential but leaves quota_exhausted set
ReactivatedStatus(st) == [st EXCEPT !.active = TRUE, !.error_count = 0]

\* the reset of a cooled-down credential in _rotate_to_next_key
ResetStatus(st) ==
  [st EXCEPT !.quota_exhausted = FALSE, !.active = TRUE, !.error_count = 0]

\* the while loop of _rotate_to_next_key; scanned lists the credentials it
\* looked at, in order
RECURSIVE RotateScan(_, _, _, _, _)
RotateScan(idx, ks, t, attempts, scanned) ==
  IF attempts >= NumKeys
  THEN [ok |-> FALSE, idx |-> idx, ks |-> ks, scanned |-> scanned]
  ELSE LET i == (idx + 1) % NumKeys
           st == IF CooledDown(ks, i, t) THEN ResetStatus(ks[i]) ELSE ks[i]
           ks2 == [ks EXCEPT ![i] = st]
       IN IF st.active /\ ~st.quota_exhausted
          THEN [ok |-> TRUE, idx |-> i, ks |-> ks2, scanned |-> Append(scanned, i)]
          ELSE RotateScan(i, ks2, t, attempts + 1, Append(scanned, i))

\* a rotation that takes the next credential of the ring as it is
rotate_to_following_key(idx, ks, t) ==
  [ok |-> TRUE, idx |-> (idx + 1) % NumKeys, ks |-> ks,
   scanned |-> <<(idx + 1) % NumKeys>>]

rotate_to_next_key(idx, ks, t) == RotateScan(idx, ks, t, 0, <<>>)

\* the counters of get_status_report
get_status_report ==
  [current_key |-> current_key_index + 1,
   total_keys |-> NumKeys,
   active_keys |-> Cardinality({k \in Keys : key_status[k].active}),
   quota_exhausted_keys |->
      Cardinality({k \in Keys : key_status[k].quota_exhausted})]

\* an error record that leaves error_count as it is
RecordedErrorUncounted(st, t) == [st EXCEPT !.last_error_time = t]

\* the first two assignments of _handle_api_error
RecordedError(st, t) == [st EXCEPT !.last_error_time = t, !.error_count = @ + 1]

\* error handling that records a 429 without marking the credential
handle_api_error_unmarked(ks, k, code, t) ==
  LET st == RecordedError(ks[k], t)
  IN [ks EXCEPT ![k] =
        IF code \in {401, 403} THEN [st EXCEPT !.active = FALSE] ELSE st]

handle_api_error(ks, k, code, t) ==
  LET st == RecordedError(ks[k], t)
  IN [ks EXCEPT ![k] =
        IF code = 429
        THEN [st EXCEPT !.quota_exhausted = TRUE, !.active = FALSE]
        ELSE IF code \in {401, 403}
        THEN [st EXCEPT !.active = FALSE]
        ELSE st]

\* The for loop of _create_batch_with_rotation / generate_content_with_rotation
\* from the top of iteration `attempt` up to the next awaited provider call
\* or the return of None.
RECURSIVE AttemptLoop(_, _, _, _)
AttemptLoop(idx, ks, t, attempt) ==
  IF attempt >= NumKeys
  THEN [out |-> "None", idx |-> idx, ks |-> ks, attempt |-> attempt]
  ELSE IF idx \notin clients
  THEN LET rot == rotate_to_next_key(idx, ks, t)
       IN IF ~rot.ok
          THEN [out |-> "None", idx |-> rot.idx, ks |-> rot.ks, attempt |-> attempt]
          ELSE AttemptLoop(rot.idx, rot.ks, t, attempt + 1)
  ELSE [out |-> "await", idx |-> idx, ks |-> ks, attempt |-> attempt]

ExactlyOneUsable(ks) == Cardinality({k \in Keys : Usable(ks, k)}) = 1

\* every credential that is not usable is invalid or still within its cool-down
OthersBlocked(ks, t) ==
  \A k \in Keys : ~Usable(ks, k) => ~CooledDown(ks, k, t)

TotalErrors == SumOver([k \in Keys |-> key_status[k].error_count], Keys)

\* a call that returns the embeddings of the sub-batches processed before
\* the one that failed
PartialCall(r) ==
  [DoneReq("ok") EXCEPT !.texts = req[r].texts,
                        !.embeddings = req[r].texts - req[r].batches]

\* if batch_embeddings is None: return None (all_embeddings is dropped)
FailedCall(r) == DoneReq("None")

\* the state of call r after the loop ran up to its next await or return;
\* texts counts the sub-batches of the input, batches those still to embed
Proceed(r, a, batches) ==
  /\ current_key_index' = a.idx
  /\ key_status' = a.ks
  /\ req' = [req EXCEPT ![r] =
       IF a.out = "await"
       THEN [pc |-> "awaiting", attempt |-> a.attempt, key |-> a.idx,
             batches |-> batches, result |-> "none",
             texts |-> IF req[r].pc = "awaiting" THEN req[r].texts ELSE batches,
             embeddings |-> 0]
       ELSE FailedCall(r)]

InitRotation ==
  /\ current_key_index = 0
  /\ now = 0
  /\ clients \in SUBSET Keys
  /\ key_status = [k \in Keys |-> IF k \in clients THEN FreshStatus ELSE FailedStatus]
  /\ req = [r \in Reqs |-> IdleReq]
  /\ quotaRun = [r \in Reqs |-> FALSE]
  /\ dupReport = [r \in Reqs |-> FALSE]

\* create_embeddings_with_rotation(texts) with texts of nb sub-batches
create_embeddings_with_rotation(r, nb) ==
  /\ req[r].pc # "awaiting"
  /\ IF nb = 0
     THEN /\ req' = [req EXCEPT ![r] = DoneReq("ok")]
          /\ UNCHANGED <<current_key_index, key_status>>
     ELSE Proceed(r, AttemptLoop(current_key_index, key_status, now, 0), nb)
  /\ quotaRun' = [quotaRun EXCEPT ![r] =
                    /\ req'[r].pc = "awaiting"
                    /\ ExactlyOneUsable(key_status) /\ OthersBlocked(key_status, now)]
  /\ dupReport' = [dupReport EXCEPT ![r] = FALSE]
  /\ UNCHANGED <<clients, now>>

generate_content_with_rotation(r) ==
  /\ req[r].pc # "awaiting"
  /\ Proceed(r, AttemptLoop(current_key_index, key_status, now, 0), 1)
  /\ quotaRun' = [quotaRun EXCEPT ![r] =
                    /\ req'[r].pc = "awaiting"
                    /\ ExactlyOneUsable(key_status) /\ OthersBlocked(key_status, now)]
  /\ dupReport' = [dupReport EXCEPT ![r] = FALSE]
  /\ UNCHANGED <<clients, now>>

\* an outcome charged to the credential that is current when it is handled
KeyAtHandling(r) == current_key_index

\* current_key, read before the provider call is awaited
HandledKey(r) == req[r].key

\* the awaited provider call of r returns normally
ProviderSuccess(r) ==
  /\ req[r].pc = "awaiting"
  /\ key_status[req[r].key].successful_requests < MaxSuccess
  /\ LET k == HandledKey(r)
         ks1 == [key_status EXCEPT ![k].successful_requests = @ + 1]
     IN IF req[r].batches > 1
        THEN Proceed(r, AttemptLoop(current_key_index, ks1, now, 0),
                     req[r].batches - 1)
        ELSE /\ key_status' = ks1
             /\ req' = [req EXCEPT ![r] =
                          [DoneReq("ok") EXCEPT !.texts = req[r].texts,
                                                !.embeddings = req[r].texts]]
             /\ UNCHANGED current_key_index
  /\ quotaRun' = [quotaRun EXCEPT ![r] = FALSE]
  /\ dupReport' = [dupReport EXCEPT ![r] = FALSE]
  /\ UNCHANGED <<clients, now>>

\* the awaited provider call of r raises errors.APIError with this code
ProviderApiError(r, code) ==
  /\ req[r].pc = "awaiting"
  /\ TotalErrors < MaxErrors
  /\ LET k == HandledKey(r)
         ks1 == handle_api_error(key_status, k, code, now)
     IN /\ IF code = 429
           THEN LET rot == rotate_to_next_key(current_key_index, ks1, now)
                IN IF ~rot.ok
                   THEN /\ current_key_index' = rot.idx
                        /\ key_status' = rot.ks
                        /\ req' = [req EXCEPT ![r] = FailedCall(r)]
                   ELSE Proceed(r, AttemptLoop(rot.idx, rot.ks, now, req[r].attempt + 1),
                                req[r].batches)
           ELSE /\ key_status' = ks1
                /\ req' = [req EXCEPT ![r] = FailedCall(r)]
                /\ UNCHANGED current_key_index
        /\ dupReport' = [q \in Reqs |->
              IF q = r THEN FALSE
              ELSE dupReport[q] \/ (req[q].pc = "awaiting" /\ req[q].key = k)]
  /\ quotaRun' = [quotaRun EXCEPT ![r] = @ /\ code = 429]
  /\ UNCHANGED <<clients, now>>

\* the awaited provider call of r raises another exception (a timeout)
ProviderException(r) ==
  /\ req[r].pc = "awaiting"
  /\ LET rot == rotate_to_next_key(current_key_index, key_status, now)
     IN IF ~rot.ok
        THEN /\ current_key_index' = rot.idx
             /\ key_status' = rot.ks
             /\ req' = [req EXCEPT ![r] = FailedCall(r)]
        ELSE Proceed(r, AttemptLoop(rot.idx, rot.ks, now, req[r].attempt + 1),
                     req[r].batches)
  /\ quotaRun' = [quotaRun EXCEPT ![r] = FALSE]
  /\ dupReport' = [dupReport EXCEPT ![r] = FALSE]
  /\ UNCHANGED <<clients, now>>

\* the wall clock advances by one cool-down window
Tick ==
  /\ now < MaxTicks * quota_reset_time
  /\ now' = now + quota_reset_time
  /\ quotaRun' = [r \in Reqs |-> FALSE]
  /\ UNCHANGED <<current_key_index, key_status, clients, req, dupReport>>

\* the rotation service touches neither the store nor the embeddings service
RotationFrame == UNCHANGED <<storeVars, embVars, callVars>>

(***************************************************************************)
(* VectorStoreService                                                      *)
(***************************************************************************)

ChunkIds == 1 .. MaxIds
EmbDims == {SENTENCE_TRANSFORMER_DIM, GEMINI_EMBEDDING_DIMENSION}

\* The leading components of the embedding of chunk id (the others are 0).
VecOf(id) ==
  CASE id % 3 = 1 -> <<1, 0>>
    [] id % 3 = 2 -> <<3, 4>>
    [] OTHER -> <<0, 1>>

SourceOf(id) == IF id % 2 = 1 THEN "doc.txt" ELSE "doc.txt.bak"

\* how many of the five boosted keywords occur in the content of chunk id
TermsOf(id) == IF id % 2 = 0 THEN 1 ELSE 0

\* a document as passed to upsert_documents: id, embedding, metadata
Chunk(id, d) ==
  [id |-> id, embedding |-> [dim |-> d, vec |-> VecOf(id)],
   metadata |-> [source |-> SourceOf(id), terms |-> TermsOf(id)]]

Chunks == {Chunk(id, d) : id \in ChunkIds, d \in EmbDims}

QueryVecs == {<<1, 0>>, <<4, 3>>}
Queries == {[dim |-> d, vec |-> v] : d \in EmbDims, v \in QueryVecs}

\* similarity thresholds a caller passes: the configured default and a strict one
Thresholds == {SIMILARITY_THRESHOLD, 100 - SIMILARITY_THRESHOLD - THRESHOLD_RELAX}

NoFilter == [key |-> "none", value |-> "none"]
Filters == {NoFilter} \cup {[key |-> "source", value |-> SourceOf(id)] : id \in ChunkIds}

Dot(a, b) == a[1] * b[1] + a[2] * b[2]

\* np.linalg.norm for the vectors of the model, whose norms are integers
Norm(a) == CHOOSE n \in 0 .. 5 : n * n = Dot(a, a)

\* cosine_similarity, in hundredths
cosine_similarity(a, b) ==
  IF Norm(a) = 0 \/ Norm(b) = 0 THEN 0
  ELSE (100 * Dot(a, b)) \div (Norm(a) * Norm(b))

Min(a, b) == IF a <= b THEN a ELSE b
Max(a, b) == IF a >= b THEN a ELSE b

Take(seq, n) == SubSeq(seq, 1, Min(n, Len(seq)))

\* list.sort(key=score, reverse=True): stable, descending
RECURSIVE InsertByScore(_, _)
InsertByScore(sorted, x) ==
  IF sorted = <<>> THEN <<x>>
  ELSE IF Head(sorted).score >= x.score
       THEN <<Head(sorted)>> \o InsertByScore(Tail(sorted), x)
       ELSE <<x>> \o sorted

RECURSIVE SortByScore(_)
SortByScore(seq) ==
  IF seq = <<>> THEN <<>>
  ELSE InsertByScore(SortByScore(SubSeq(seq, 1, Len(seq) - 1)), seq[Len(seq)])

MatchesFilter(chunk, f) ==
  f = NoFilter \/ (f.key = "source" /\ chunk.metadata.source = f.value)

\* one entry of a result list; dim is the length of the matched embedding
Hit(chunk, score) ==
  [id |-> chunk.id, dim |-> chunk.embedding.dim, source |-> chunk.metadata.source,
   score |-> score]

\* the in-memory branch without the dimension test of its loop
MemorySearchAnyDimension(mem, q, top_k, f, threshold) ==
  LET keep(v) == /\ MatchesFilter(v, f)
                 /\ cosine_similarity(q.vec, v.embedding.vec) >= threshold
      hit(v) == Hit(v, cosine_similarity(q.vec, v.embedding.vec))
      kept == SelectSeq(mem, keep)
  IN Take(SortByScore([i \in 1 .. Len(kept) |-> hit(kept[i])]), top_k)

\* the in-memory branch of search_similar_documents
MemorySearch(mem, q, top_k, f, threshold) ==
  LET keep(v) == /\ v.embedding.dim = q.dim
                 /\ MatchesFilter(v, f)
                 /\ cosine_similarity(q.vec, v.embedding.vec) >= threshold
      hit(v) == Hit(v, cosine_similarity(q.vec, v.embedding.vec))
      kept == SelectSeq(mem, keep)
  IN Take(SortByScore([i \in 1 .. Len(kept) |-> hit(kept[i])]), top_k)

\* chroma_collection.count()
ChromaCount == Cardinality(DOMAIN chroma_docs) + preloaded

\* chroma_collection.query: the n nearest chunks that satisfy the where
\* clause, nearest first (equal distances by id)
RECURSIVE NearestFirst(_, _)
NearestFirst(ids, q) ==
  IF ids = {} THEN <<>>
  ELSE LET best == CHOOSE i \in ids : \A j \in ids :
                     LET si == cosine_similarity(q.vec, chroma_docs[i].embedding.vec)
                         sj == cosine_similarity(q.vec, chroma_docs[j].embedding.vec)
                     IN si > sj \/ (si = sj /\ i <= j)
       IN <<chroma_docs[best]>> \o NearestFirst(ids \ {best}, q)

ChromaQuery(q, n, f) ==
  Take(NearestFirst({i \in DOMAIN chroma_docs :
                       f.key \notin {"source", "title", "category", "page"}
                       \/ MatchesFilter(chroma_docs[i], f)}, q), n)

\* the collection rejects a query whose length is not its dimensionality
ChromaQueryRaises(q) == chroma_dim # None /\ q.dim # chroma_dim

\* the ChromaDB branch of search_similar_documents when the query succeeds
ChromaSearch(q, top_k, f, threshold) ==
  LET near == ChromaQuery(q, Min(top_k * 3, MAX_N_RESULTS), f)
      keep(v) == cosine_similarity(q.vec, v.embedding.vec)
                   >= Max(MIN_VARIANT_THRESHOLD, threshold - THRESHOLD_RELAX)
      hit(v) == Hit(v, Min(100, cosine_similarity(q.vec, v.embedding.vec)
                                  + TERM_BOOST * v.metadata.terms))
      kept == SelectSeq(near, keep)
  IN Take(SortByScore([i \in 1 .. Len(kept) |-> hit(kept[i])]), top_k)

\* the last search: its arguments, the branch that answered and the result
Searched(by, q, top_k, f, threshold, results) ==
  [served_by |-> by, query |-> q, top_k |-> top_k, filter |-> f,
   threshold |-> threshold, results |-> results]

NoSearch == Searched("none", [dim |-> 0, vec |-> <<0, 0>>], 0, NoFilter, 0, <<>>)
NoDelete ==
  [op |-> "none", source |-> "none", ret |-> FALSE, chroma_deleted |-> 0,
   memory_deleted |-> 0]
IdleUpsert == [pc |-> "idle", docs |-> <<>>, ret |-> FALSE]

\* the record of the upsert call after another call ran: a call still awaiting
\* ChromaDB stays as it is, the result of a returned one has been consumed
UpsertAfterOtherCall ==
  IF up.pc \in {"chroma_await", "chroma_written"} THEN up ELSE IdleUpsert

InitStore ==
  /\ chroma_collection \in BOOLEAN
  /\ chroma_docs = <<>>
  /\ preloaded \in (IF chroma_collection THEN {0, DOC_COUNT_HEURISTIC + 1} ELSE {0})
  /\ chroma_dim \in (IF preloaded > 0 THEN EmbDims ELSE {None})
  /\ in_memory_vectors = <<>>
  /\ up = IdleUpsert
  /\ found = NoSearch
  /\ deleted = NoDelete

\* a search without the except clause of the ChromaDB branch: an exception of
\* the collection leaves the call
search_propagating_errors(q, top_k, f, threshold, chroma_fails) ==
  /\ chroma_fails => chroma_collection
  /\ IF ~chroma_collection
     THEN found' = Searched("memory", q, top_k, f, threshold,
                            MemorySearch(in_memory_vectors, q, top_k, f, threshold))
     ELSE IF \/ (ChromaCount > DOC_COUNT_HEURISTIC /\ q.dim = GEMINI_EMBEDDING_DIMENSION)
             \/ ChromaQueryRaises(q)
             \/ chroma_fails
     THEN found' = Searched("raised", q, top_k, f, threshold, <<>>)
     ELSE found' = Searched("chroma", q, top_k, f, threshold,
                            ChromaSearch(q, top_k, f, threshold))
  /\ deleted' = NoDelete
  /\ up' = UpsertAfterOtherCall
  /\ UNCHANGED <<chroma_collection, chroma_docs, chroma_dim, preloaded,
                 in_memory_vectors>>

\* search_similar_documents(query_embedding, top_k, filter_metadata,
\* similarity_threshold); chroma_fails: the query raises for another reason
search_similar_documents(q, top_k, f, threshold, chroma_fails) ==
  /\ chroma_fails => chroma_collection
  /\ IF /\ chroma_collection
        /\ ~(ChromaCount > DOC_COUNT_HEURISTIC /\ q.dim = GEMINI_EMBEDDING_DIMENSION)
        /\ ~ChromaQueryRaises(q)
        /\ ~chroma_fails
     THEN found' = Searched("chroma", q, top_k, f, threshold,
                            ChromaSearch(q, top_k, f, threshold))
     ELSE found' = Searched("memory", q, top_k, f, threshold,
                            MemorySearch(in_memory_vectors, q, top_k, f, threshold))
  /\ deleted' = NoDelete
  /\ up' = UpsertAfterOtherCall
  /\ UNCHANGED <<chroma_collection, chroma_docs, chroma_dim, preloaded,
                 in_memory_vectors>>

\* a mirror that keeps only the documents of the batch's first dimension
MirrorAppendUniform(mem, docs) ==
  LET same(d) == d.embedding.dim = docs[1].embedding.dim
  IN mem \o SelectSeq(docs, same)

\* an entry appended while its embedding is still to be stored
MirrorEntryWithoutEmbedding(doc) == [id |-> doc.id, metadata |-> doc.metadata]

\* the dict that the loops append for a document
MirrorEntry(doc) == [id |-> doc.id, embedding |-> doc.embedding, metadata |-> doc.metadata]

\* the final loops of upsert_documents: every document is appended to the mirror
MirrorAppend(mem, docs) == mem \o [i \in 1 .. Len(docs) |-> MirrorEntry(docs[i])]

\* ChromaDB accepts a batch whose ids are distinct and whose embeddings all
\* have the dimensionality of the collection
ChromaAccepts(docs) ==
  /\ \A i, j \in 1 .. Len(docs) : docs[i].id = docs[j].id => i = j
  /\ \A i \in 1 .. Len(docs) :
        /\ docs[i].embedding.dim = docs[1].embedding.dim
        /\ chroma_dim # None => docs[i].embedding.dim = chroma_dim

\* the collection after the first n documents of the batch were written
RECURSIVE ChromaWritten(_, _, _)
ChromaWritten(col, docs, n) ==
  IF n = 0 THEN col
  ELSE LET c == ChromaWritten(col, docs, n - 1)
           d == docs[n]
       IN [i \in DOMAIN c \cup {d.id} |-> IF i = d.id THEN d ELSE c[i]]

\* upsert_documents(documents) up to its first await or its return
upsert_documents(docs) ==
  /\ up.pc \notin {"chroma_await", "chroma_written"}
  /\ Len(in_memory_vectors) + Len(docs) <= MaxMem
  /\ IF docs = <<>>
     THEN /\ up' = [pc |-> "done", docs |-> docs, ret |-> TRUE]
          /\ UNCHANGED in_memory_vectors
     ELSE IF chroma_collection
     THEN /\ up' = [pc |-> "chroma_await", docs |-> docs, ret |-> FALSE]
          /\ UNCHANGED in_memory_vectors
     ELSE /\ in_memory_vectors' = MirrorAppend(in_memory_vectors, docs)
          /\ up' = [pc |-> "done", docs |-> docs, ret |-> TRUE]
  /\ found' = NoSearch
  /\ deleted' = NoDelete
  /\ UNCHANGED <<chroma_collection, chroma_docs, chroma_dim, preloaded>>

\* the awaited chroma_collection.upsert returns: the documents are mirrored
ChromaUpsertReturns ==
  /\ up.pc = "chroma_await"
  /\ ChromaAccepts(up.docs)
  /\ chroma_docs' = ChromaWritten(chroma_docs, up.docs, Len(up.docs))
  /\ chroma_dim' = up.docs[1].embedding.dim
  /\ in_memory_vectors' = MirrorAppend(in_memory_vectors, up.docs)
  /\ up' = [up EXCEPT !.pc = "done", !.ret = TRUE]
  /\ found' = NoSearch
  /\ deleted' = NoDelete
  /\ UNCHANGED <<chroma_collection, preloaded>>

\* the awaited chroma_collection.upsert raises after n documents were
\* written (n = 0 when the batch is rejected): the except clause falls
\* through to the in-memory fallback, self.index being None
ChromaUpsertRaises(n) ==
  /\ up.pc = "chroma_await"
  /\ n < Len(up.docs)
  /\ n > 0 => ChromaAccepts(SubSeq(up.docs, 1, n))
  /\ chroma_docs' = ChromaWritten(chroma_docs, up.docs, n)
  /\ chroma_dim' = IF n > 0 THEN up.docs[1].embedding.dim ELSE chroma_dim
  /\ in_memory_vectors' = MirrorAppend(in_memory_vectors, up.docs)
  /\ up' = [up EXCEPT !.pc = "done", !.ret = TRUE]
  /\ found' = NoSearch
  /\ deleted' = NoDelete
  /\ UNCHANGED <<chroma_collection, preloaded>>

\* delete_documents(document_ids): use_memory_fallback is True
delete_documents(ids) ==
  LET kept == SelectSeq(in_memory_vectors, LAMBDA v : v.id \notin ids)
  IN /\ in_memory_vectors' = kept
     /\ deleted' = [op |-> "ids", source |-> "none", ret |-> TRUE, chroma_deleted |-> 0,
                    memory_deleted |-> Len(in_memory_vectors) - Len(kept)]
     /\ found' = NoSearch
     /\ up' = UpsertAfterOtherCall
     /\ UNCHANGED <<chroma_collection, chroma_docs, chroma_dim, preloaded>>

\* a comparison that also takes the sources the file name is a prefix of
SourceStartsWith(chunk_source, source_filename) ==
  \/ chunk_source = source_filename
  \/ (source_filename = "doc.txt" /\ chunk_source = "doc.txt.bak")

\* chunk_source == source_filename
SourceMatches(chunk_source, source_filename) == chunk_source = source_filename

\* delete_documents_by_source(source_filename); chroma_fails: the ChromaDB
\* get/delete raises
delete_documents_by_source(source, chroma_fails) ==
  LET ids_to_delete == IF chroma_collection /\ ~chroma_fails
                       THEN {i \in DOMAIN chroma_docs :
                               SourceMatches(chroma_docs[i].metadata.source, source)}
                       ELSE {}
      kept == SelectSeq(in_memory_vectors,
                        LAMBDA v : ~SourceMatches(v.metadata.source, source))
      memory_deleted == Len(in_memory_vectors) - Len(kept)
  IN /\ chroma_docs' = [i \in DOMAIN chroma_docs \ ids_to_delete |-> chroma_docs[i]]
     /\ in_memory_vectors' = kept
     /\ deleted' = [op |-> "source", source |-> source,
                    ret |-> Cardinality(ids_to_delete) + memory_deleted > 0,
                    chroma_deleted |-> Cardinality(ids_to_delete),
                    memory_deleted |-> memory_deleted]
     /\ found' = NoSearch
     /\ up' = UpsertAfterOtherCall
     /\ UNCHANGED <<chroma_collection, chroma_dim, preloaded>>

\* the worker thread of asyncio.to_thread has written the batch to the
\* collection; the coroutine of upsert_documents has not resumed yet
ChromaUpsertWrites ==
  /\ up.pc = "chroma_await"
  /\ ChromaAccepts(up.docs)
  /\ chroma_docs' = ChromaWritten(chroma_docs, up.docs, Len(up.docs))
  /\ chroma_dim' = up.docs[1].embedding.dim
  /\ up' = [up EXCEPT !.pc = "chroma_written"]
  /\ UNCHANGED <<chroma_collection, preloaded, in_memory_vectors, found, deleted>>

\* the coroutine resumes after the await and mirrors the documents
UpsertResumes ==
  /\ up.pc = "chroma_written"
  /\ in_memory_vectors' = MirrorAppend(in_memory_vectors, up.docs)
  /\ up' = [up EXCEPT !.pc = "done", !.ret = TRUE]
  /\ found' = NoSearch
  /\ deleted' = NoDelete
  /\ UNCHANGED <<chroma_collection, chroma_docs, chroma_dim, preloaded>>

UpsertBatches == UNION {[1 .. n -> Chunks] : n \in 0 .. MaxUpsert}

\* the store touches neither the rotation service nor the embeddings service
StoreFrame == UNCHANGED <<rotVars, embVars, callVars>>

NextStore ==
  \/ \E docs \in UpsertBatches : upsert_documents(docs) /\ StoreFrame
  \/ ChromaUpsertReturns /\ StoreFrame
  \/ \E n \in 0 .. MaxUpsert : ChromaUpsertRaises(n) /\ StoreFrame
  \/ \E q \in Queries, top_k \in 1 .. 2, f \in Filters,
        threshold \in Thresholds, chroma_fails \in BOOLEAN :
        search_similar_documents(q, top_k, f, threshold, chroma_fails) /\ StoreFrame
  \/ \E ids \in SUBSET ChunkIds : ids # {} /\ delete_documents(ids) /\ StoreFrame
  \/ \E id \in ChunkIds, chroma_fails \in BOOLEAN :
        delete_documents_by_source(SourceOf(id), chroma_fails) /\ StoreFrame

\* upserts and deletions by source on a reachable ChromaDB, the write of the
\* worker thread and the resumption of the coroutine being separate steps
InitLayers ==
  /\ chroma_collection = TRUE
  /\ chroma_docs = <<>>
  /\ chroma_dim = None
  /\ preloaded = 0
  /\ in_memory_vectors = <<>>
  /\ up = IdleUpsert
  /\ found = NoSearch
  /\ deleted = NoDelete

NextLayers ==
  \/ \E docs \in UpsertBatches : upsert_documents(docs) /\ StoreFrame
  \/ ChromaUpsertWrites /\ StoreFrame
  \/ UpsertResumes /\ StoreFrame
  \/ \E id \in ChunkIds : delete_documents_by_source(SourceOf(id), FALSE) /\ StoreFrame

(***************************************************************************)
(* VectorStoreService.search_similar_documents_multi_query                 *)
(***************************************************************************)

\* what one search_similar_documents call returns
SearchResults(q, top_k, f, threshold, chroma_fails) ==
  IF /\ chroma_collection
     /\ ~(ChromaCount > DOC_COUNT_HEURISTIC /\ q.dim = GEMINI_EMBEDDING_DIMENSION)
     /\ ~ChromaQueryRaises(q)
     /\ ~chroma_fails
  THEN ChromaSearch(q, top_k, f, threshold)
  ELSE MemorySearch(in_memory_vectors, q, top_k, f, threshold)

\* the query variants of one call: the embeddings of the expansions of one
\* question, all of one provider
VariantLists ==
  UNION {[1 .. n -> {[dim |-> d, vec |-> v] : v \in QueryVecs}] :
           n \in 0 .. MaxVariants, d \in EmbDims}

\* the body of the merge loop for one result; all_results is a dict, which
\* keeps its keys in insertion order
MergeResult(all_results, result) ==
  IF \E i \in 1 .. Len(all_results) : all_results[i].id = result.id
  THEN [i \in 1 .. Len(all_results) |->
          IF all_results[i].id = result.id
          THEN [all_results[i] EXCEPT
                  !.score = Min(100, Max(@, result.score) + MULTI_MATCH_BONUS),
                  !.multi_match = TRUE]
          ELSE all_results[i]]
  ELSE Append(all_results,
              [id |-> result.id, dim |-> result.dim, source |-> result.source,
               score |-> result.score, multi_match |-> FALSE])

\* the merge loop over the first n results of one variant
RECURSIVE MergeResults(_, _, _)
MergeResults(all_results, results, n) ==
  IF n = 0 THEN all_results
  ELSE MergeResult(MergeResults(all_results, results, n - 1), results[n])

\* what the variant at position i is searched with
VariantResults(call, i) ==
  SearchResults(call.queries[i], call.top_k * 2, call.filter,
                Max(MIN_VARIANT_THRESHOLD, call.threshold - THRESHOLD_RELAX),
                call.chroma_fails[i])

\* all_results after the first n variants
RECURSIVE AllResults(_, _)
AllResults(call, n) ==
  IF n = 0 THEN <<>>
  ELSE LET results == VariantResults(call, n)
       IN MergeResults(AllResults(call, n - 1), results, Len(results))

\* the sort, the final threshold and the truncation
FinalResults(call) ==
  LET combined_results == SortByScore(AllResults(call, Len(call.queries)))
      passes(r) == r.score >= call.threshold
  IN Take(SelectSeq(combined_results, passes), call.top_k)

MultiQueryCall(qs, top_k, f, threshold, chroma_fails) ==
  [pc |-> "called", queries |-> qs, top_k |-> top_k, filter |-> f,
   threshold |-> threshold, chroma_fails |-> chroma_fails, results |-> <<>>]

NoMultiQuery == [MultiQueryCall(<<>>, 0, NoFilter, 0, <<>>) EXCEPT !.pc = "none"]

\* the store after one upsert_documents batch completed, ChromaDB having
\* taken the batch when it could
InitStoreLoaded ==
  /\ chroma_collection \in BOOLEAN
  /\ preloaded = 0
  /\ in_memory_vectors \in UpsertBatches
  /\ LET docs == in_memory_vectors
         taken == /\ chroma_collection
                  /\ docs # <<>>
                  /\ \A i, j \in 1 .. Len(docs) :
                        /\ docs[i].id = docs[j].id => i = j
                        /\ docs[i].embedding.dim = docs[j].embedding.dim
     IN /\ chroma_docs = IF taken THEN ChromaWritten(<<>>, docs, Len(docs)) ELSE <<>>
        /\ chroma_dim = IF taken THEN docs[1].embedding.dim ELSE None
  /\ up = IdleUpsert
  /\ found = NoSearch
  /\ deleted = NoDelete

\* a caller is about to run a multi-query search; chroma_fails[i]: the
\* ChromaDB query of variant i raises for a reason of its own
InitMultiQuery ==
  \E qs \in VariantLists, top_k \in 1 .. 2, f \in Filters, threshold \in Thresholds :
    \E chroma_fails \in [1 .. Len(qs) -> (IF chroma_collection THEN BOOLEAN ELSE {FALSE})] :
       mq = MultiQueryCall(qs, top_k, f, threshold, chroma_fails)

\* search_similar_documents_multi_query(query_embeddings, top_k,
\* filter_metadata, similarity_threshold)
search_similar_documents_multi_query ==
  /\ mq.pc = "called"
  /\ mq' = [mq EXCEPT !.pc = "returned", !.results = FinalResults(mq)]
  /\ UNCHANGED storeVars

MultiQueryFrame == UNCHANGED <<rotVars, embVars, hy, ix>>

NextMultiQuery ==
  search_similar_documents_multi_query /\ MultiQueryFrame

(***************************************************************************)
(* HybridRAGService.hybrid_search                                          *)
(***************************************************************************)

DocIds == 1 .. MaxDocs

\* scores in hundredths: BM25 scores are positive, cosine scores may be negative
LexicalScores == {40, 100, 200}
SemanticScores == {-20, 50, 90}
CrossScores == {1, 2}

\* the indices of keys in the order of sorted(..., reverse=True): descending,
\* equal keys in their original order
StableDescending(keys) ==
  [r \in 1 .. Len(keys) |->
     CHOOSE i \in 1 .. Len(keys) :
        Cardinality({j \in 1 .. Len(keys) :
                       keys[j] > keys[i] \/ (keys[j] = keys[i] /\ j < i)}) + 1 = r]

\* one entry of search_bm25 / search_semantic
BranchResult(id, score, type) ==
  [document_id |-> id, score |-> score, search_type |-> type,
   hybrid_score |-> None, cross_score |-> None]

\* the list a branch returns for the documents it scored (None: not
\* returned), best first
BranchResults(scored, type) ==
  LET ids == {i \in DOMAIN scored : scored[i] # None}
      listed == [k \in 1 .. Cardinality(ids) |->
                   CHOOSE i \in ids : Cardinality({j \in ids : j < i}) = k - 1]
      order == StableDescending([k \in 1 .. Len(listed) |-> scored[listed[k]]])
  IN Take([k \in 1 .. Len(listed) |->
             BranchResult(listed[order[k]], scored[listed[order[k]]], type)],
          BRANCH_TOP_K)

PositionOf(combined_results, doc_id) ==
  {i \in 1 .. Len(combined_results) : combined_results[i].document_id = doc_id}

\* the loop over bm25_results; combined_results is a dict, which keeps its
\* keys in insertion order
RECURSIVE AddLexical(_, _)
AddLexical(bm25_results, n) ==
  IF n = 0 THEN <<>>
  ELSE LET combined_results == AddLexical(bm25_results, n - 1)
           result == bm25_results[n]
       IN IF PositionOf(combined_results, result.document_id) = {}
          THEN Append(combined_results,
                      [result EXCEPT !.hybrid_score = (result.score * LEXICAL_BOOST) \div 10])
          ELSE combined_results

\* a fusion that leaves a document of the lexical branch as it is
FuseSemanticKeepLexical(combined_results, result) ==
  IF PositionOf(combined_results, result.document_id) = {}
  THEN Append(combined_results, [result EXCEPT !.hybrid_score = result.score])
  ELSE combined_results

\* the body of the loop over semantic_results
FuseSemantic(combined_results, result) ==
  IF PositionOf(combined_results, result.document_id) = {}
  THEN Append(combined_results, [result EXCEPT !.hybrid_score = result.score])
  ELSE [i \in 1 .. Len(combined_results) |->
          IF combined_results[i].document_id = result.document_id
          THEN [combined_results[i] EXCEPT
                  !.hybrid_score = Max(@, (result.score * BOTH_BOOST) \div 10),
                  !.search_type = "hybrid"]
          ELSE combined_results[i]]

\* the loop over semantic_results
RECURSIVE AddSemantic(_, _, _)
AddSemantic(combined, semantic_results, n) ==
  IF n = 0 THEN combined
  ELSE FuseSemantic(AddSemantic(combined, semantic_results, n - 1), semantic_results[n])

\* combined_results after both loops
CombinedResults(bm25_results, semantic_results) ==
  AddSemantic(AddLexical(bm25_results, Len(bm25_results)),
              semantic_results, Len(semantic_results))

\* the models of the service: "ok", "raises" (loaded; cross_encoder.predict
\* returns or raises), "absent" (both are None: loading them raised), "unset"
\* (the attributes do not exist: sentence_transformers is not installed)
ModelStates == {"ok", "raises", "absent", "unset"}

\* rerank_results(query, results, top_k); cross_scores: the score of the
\* cross-encoder per document
rerank_results(results, top_k, cross, cross_scores) ==
  IF cross = "absent" \/ results = <<>> \/ cross = "raises"
  THEN Take(results, top_k)
  ELSE LET scored == [i \in 1 .. Len(results) |->
                        [results[i] EXCEPT !.cross_score = cross_scores[results[i].document_id]]]
           order == StableDescending([i \in 1 .. Len(scored) |-> scored[i].cross_score])
       IN Take([i \in 1 .. Len(scored) |-> scored[order[i]]], top_k)

\* every fused candidate handed to the cross-encoder
AllCandidates(final_results) == final_results

\* final_results[:15], the candidates handed to rerank_results
RerankCandidates(final_results) == Take(final_results, RERANK_CANDIDATES)

\* the re-ranking and the truncation without the sort on hybrid_score
HybridFinalResultsUnsorted(combined_results, top_k, rerank, cross, cross_scores) ==
  IF rerank /\ cross # "absent"
  THEN rerank_results(RerankCandidates(combined_results), top_k, cross, cross_scores)
  ELSE Take(combined_results, top_k)

\* the sort on hybrid_score, the re-ranking and the truncation
HybridFinalResults(combined_results, top_k, rerank, cross, cross_scores) ==
  LET order == StableDescending([i \in 1 .. Len(combined_results) |->
                                   combined_results[i].hybrid_score])
      final_results == [i \in 1 .. Len(combined_results) |-> combined_results[order[i]]]
  IN IF rerank /\ cross # "absent"
     THEN rerank_results(RerankCandidates(final_results), top_k, cross, cross_scores)
     ELSE Take(final_results, top_k)

HybridCall(lexical, semantic, top_k, rerank, cross, cross_scores) ==
  [pc |-> "called", lexical |-> lexical, semantic |-> semantic, top_k |-> top_k,
   rerank |-> rerank, cross |-> cross, cross_scores |-> cross_scores,
   raised |-> FALSE, combined_results |-> <<>>, final_results |-> <<>>]

NoHybrid ==
  [HybridCall([i \in DocIds |-> None], [i \in DocIds |-> None], 0, FALSE, "absent",
              [i \in DocIds |-> None]) EXCEPT !.pc = "none"]

\* further documents of the corpus, which the branches score the same for
\* every query: the first half is found by the lexical branch alone, the
\* second half by the semantic branch alone
PadLexical(cross) ==
  [i \in 1 .. PadDocs |-> IF 2 * i <= PadDocs THEN 100 ELSE None]

PadSemantic(cross) ==
  [i \in 1 .. PadDocs |->
     IF 2 * i > PadDocs /\ cross \in {"ok", "raises"} THEN 90 ELSE None]

SetMin(S) == CHOOSE x \in S : \A y \in S : x <= y

\* per-document values of a corpus of MaxDocs documents and pads further ones
WithPads(own, pads, padded) ==
  [i \in 1 .. MaxDocs + pads |-> IF i <= MaxDocs THEN own[i] ELSE padded[i - MaxDocs]]

\* a caller is about to run hybrid_search over an indexed corpus whose
\* document ids are distinct; lexical[i], semantic[i]: the score search_bm25
\* and search_semantic give document i (None: the branch does not return
\* it; search_semantic returns nothing without its model)
InitHybrid ==
  \E lexical \in [DocIds -> LexicalScores \cup {None}],
     top_k \in 1 .. MaxDocs, rerank \in BOOLEAN, cross \in ModelStates,
     pads \in {0, PadDocs} :
    \E semantic \in [DocIds -> (IF cross \in {"ok", "raises"} THEN SemanticScores ELSE {})
                                 \cup {None}],
       cross_scores \in [DocIds -> (IF rerank /\ cross = "ok" THEN CrossScores ELSE {None})] :
       hy = HybridCall(WithPads(lexical, pads, PadLexical(cross)),
                       WithPads(semantic, pads, PadSemantic(cross)), top_k, rerank, cross,
                       WithPads(cross_scores, pads,
                                [i \in 1 .. pads |->
                                   IF rerank /\ cross = "ok" THEN SetMin(CrossScores) ELSE None]))

\* the body of hybrid_search for the branch results of call
HybridSearch(call) ==
  LET bm25_results == BranchResults(call.lexical, "bm25")
      semantic_results == BranchResults(call.semantic, "semantic")
      combined_results == CombinedResults(bm25_results, semantic_results)
  IN IF call.cross = "unset"
     THEN \* search_semantic raises AttributeError, the except clause returns []
          [call EXCEPT !.pc = "returned", !.raised = TRUE]
     ELSE [call EXCEPT
             !.pc = "returned",
             !.combined_results = combined_results,
             !.final_results = HybridFinalResults(combined_results, call.top_k,
                                                  call.rerank, call.cross,
                                                  call.cross_scores)]

\* hybrid_search(query, top_k, rerank)
hybrid_search ==
  /\ hy.pc = "called"
  /\ hy' = HybridSearch(hy)
  /\ UNCHANGED <<mq, ix>>

HybridFrame == UNCHANGED <<rotVars, storeVars, embVars>>

NextHybrid ==
  hybrid_search /\ HybridFrame

(***************************************************************************)
(* HybridRAGService: index_documents and the two search branches           *)
(***************************************************************************)

\* the service: documents is len(self.documents); bm25_index and
\* semantic_embeddings are the number of documents they were built from
\* (None: the attribute is None); models is "loaded", "absent" or "unset";
\* query_tokens says whether the last query had tokens; ret is what the
\* last index_documents call returned
\* tokenized: the documents, by position in self.documents, whose token
\* lists make up the corpus of the BM25 index, in the order of the index
Service(documents, bm25_index, semantic_embeddings, models, query_tokens, ret) ==
  [documents |-> documents, bm25_index |-> bm25_index, tokenized |-> <<>>,
   semantic_embeddings |-> semantic_embeddings, models |-> models,
   query_tokens |-> query_tokens, ret |-> ret]

\* valid_tokenized_docs: the documents of valid in the order of the corpus
Ascending(valid) ==
  [p \in 1 .. Cardinality(valid) |->
     CHOOSE x \in valid : Cardinality({y \in valid : y < x}) = p - 1]

\* HybridRAGService.__init__
InitIndex ==
  \E models \in {"loaded", "absent", "unset"} :
     ix = Service(0, None, None, models, "none", FALSE)

IndexIdle == ix = Service(0, None, None, "loaded", "none", FALSE)

\* index_documents(documents) for n documents of which those of valid
\* tokenize to at least one token; encode_fails: semantic_model.encode
\* raises. The result of an earlier search has been consumed by then
index_documents(n, valid, encode_fails) ==
  LET bm25_index == IF n > 0
                    THEN (IF valid # {} THEN Cardinality(valid) ELSE None)
                    ELSE ix.bm25_index
      lexical == [ix EXCEPT !.documents = n, !.bm25_index = bm25_index,
                            !.tokenized = IF n > 0 THEN Ascending(valid) ELSE @]
  IN /\ valid \subseteq 1 .. n
     /\ encode_fails => (ix.models = "loaded" /\ n > 0)
     /\ ix' = IF ix.models = "unset"
              THEN \* self.semantic_model raises AttributeError: return False
                   [lexical EXCEPT !.ret = FALSE]
              ELSE IF ix.models = "loaded" /\ n > 0
              THEN IF encode_fails
                   THEN [lexical EXCEPT !.ret = FALSE]
                   ELSE [lexical EXCEPT !.semantic_embeddings = n, !.ret = TRUE]
              ELSE [lexical EXCEPT !.ret = TRUE]
     /\ hy' = NoHybrid
     /\ UNCHANGED mq

NoScores == [i \in DocIds |-> None]

\* search_bm25(query, top_k); lexical: the BM25 score of the query per
\* document of the index (None: not positive). self.documents[idx] raises
\* IndexError for a document the corpus no longer has, which returns []
search_bm25(has_tokens, lexical) ==
  IF ix.bm25_index = None \/ ~has_tokens
  THEN NoScores
  ELSE LET scored == [i \in DocIds |-> IF i <= ix.bm25_index THEN lexical[i] ELSE None]
       IN IF \E i \in DocIds : scored[i] # None /\ i > ix.documents
          THEN NoScores
          ELSE scored

\* search_semantic(query, top_k); semantic: the cosine score of the query
\* per embedded document
search_semantic(semantic) ==
  IF ix.models # "loaded" \/ ix.semantic_embeddings = None
  THEN NoScores
  ELSE LET scored == [i \in DocIds |->
                        IF i <= ix.semantic_embeddings THEN semantic[i] ELSE None]
       IN IF \E i \in DocIds : scored[i] # None /\ i > ix.documents
          THEN NoScores
          ELSE scored

\* hybrid_search(query, top_k, rerank) over the indexes of the service;
\* predict_raises: cross_encoder.predict raises
hybrid_search_on_index(has_tokens, lexical, semantic, rerank, predict_raises) ==
  LET cross == IF ix.models = "loaded"
               THEN (IF predict_raises THEN "raises" ELSE "ok")
               ELSE ix.models
      cross_scores == [i \in DocIds |->
                         IF rerank /\ cross = "ok" THEN SetMin(CrossScores) ELSE None]
  IN /\ predict_raises => (rerank /\ ix.models = "loaded")
     /\ hy' = HybridSearch(HybridCall(search_bm25(has_tokens, lexical),
                                      search_semantic(semantic),
                                      MaxDocs, rerank, cross, cross_scores))
     /\ ix' = [ix EXCEPT !.query_tokens = IF has_tokens THEN "some" ELSE "empty"]
     /\ UNCHANGED mq

IndexFrame == UNCHANGED <<rotVars, storeVars, embVars>>

NextIndex ==
  \/ \E n \in 0 .. MaxDocs, valid \in SUBSET DocIds, encode_fails \in BOOLEAN :
        index_documents(n, valid, encode_fails) /\ IndexFrame
  \/ \E has_tokens \in BOOLEAN,
        lexical \in [DocIds -> {SetMin(LexicalScores), None}],
        semantic \in [DocIds -> {SetMin(SemanticScores), None}],
        rerank \in BOOLEAN, predict_raises \in BOOLEAN :
        hybrid_search_on_index(has_tokens, lexical, semantic, rerank, predict_raises)
          /\ IndexFrame

(***************************************************************************)
(* EmbeddingsService                                                       *)
(***************************************************************************)

NoProvider == "none"

\* the provider calls of one create_embeddings / create_single_embedding call
Sites == {"active", "forced", "majority", "rotation_st", "primary", "fallback"}
Outcomes == [Sites -> {"ok", "raise"}]
RotationOutcomes == {"ok", "None", "raise"}

Raised == [kind |-> "raised", vectors |-> <<>>, provider |-> NoProvider]
Vectors(n, d, p) == [kind |-> "vectors", vectors |-> [i \in 1 .. n |-> d], provider |-> p]

\* EmbeddingsService.__init__ for the clients that could be created; the
\* rotation branch never sets use_rotation (is_initialized does not exist)
InitPrimary(g, o, st) ==
  IF g = "ok" THEN "gemini"
  ELSE IF o = "ok" THEN "openai"
  ELSE IF st = "ok" THEN "sentence_transformers"
  ELSE "fallback"

InitFallbackProvider(g, o, st) ==
  IF o = "ok" /\ g = "ok" THEN "openai"
  ELSE IF st = "ok" THEN "sentence_transformers"
  ELSE NoProvider

InitDimensions(g, o, st) ==
  IF g = "ok" THEN GEMINI_EMBEDDING_DIMENSION
  ELSE IF o = "ok" THEN OPENAI_DIM
  ELSE IF st = "ok" THEN SENTENCE_TRANSFORMER_DIM
  ELSE FALLBACK_DIM

NoEmbedding == [op |-> "none", n |-> 0, kind |-> "none", vectors |-> <<>>,
                provider |-> NoProvider]

InitEmbeddings ==
  /\ gemini_client \in {"absent", "ok", "broken"}
  /\ openai_client \in {"absent", "ok"}
  /\ sentence_transformer \in {"absent", "ok", "broken"}
  /\ primary_provider = InitPrimary(gemini_client, openai_client, sentence_transformer)
  /\ fallback_provider = InitFallbackProvider(gemini_client, openai_client, sentence_transformer)
  /\ dimensions = InitDimensions(gemini_client, openai_client, sentence_transformer)
  /\ use_rotation = FALSE
  /\ active_provider = NoProvider
  /\ active_dimensions = None
  /\ emb_out = NoEmbedding

\* _create_fallback_embedding: the digest values padded or truncated to self.dimensions
create_fallback_embedding ==
  IF HASH_VALUES < dimensions THEN HASH_VALUES + (dimensions - HASH_VALUES) ELSE dimensions

create_sentence_transformer_embeddings(n, site, out) ==
  IF sentence_transformer = "ok" /\ out[site] = "ok"
  THEN Vectors(n, SENTENCE_TRANSFORMER_DIM, "sentence_transformers")
  ELSE Raised

\* raises as well when the response holds no embeddings
create_gemini_embeddings(n, site, out) ==
  IF gemini_client = "ok" /\ out[site] = "ok" /\ n > 0
  THEN Vectors(n, GEMINI_EMBEDDING_DIMENSION, "gemini")
  ELSE Raised

create_openai_embeddings(n, site, out) ==
  IF openai_client = "ok" /\ out[site] = "ok" /\ n > 0
  THEN Vectors(n, OPENAI_DIM, "openai")
  ELSE Raised

\* the Sentence Transformers fallback without its try/except: a failure of the
\* local model leaves create_embeddings as an exception
FallbackStageUncaught(n, out) ==
  IF sentence_transformer # "absent"
  THEN create_sentence_transformer_embeddings(n, "fallback", out)
  ELSE Vectors(n, create_fallback_embedding, "fallback")

\* the end of create_embeddings: the Sentence Transformers fallback in its
\* try/except, then one hash-based vector per text
FallbackStage(n, out) ==
  LET hash == Vectors(n, create_fallback_embedding, "fallback")
  IN IF sentence_transformer # "absent"
     THEN LET r == create_sentence_transformer_embeddings(n, "fallback", out)
          IN IF r.kind = "vectors" THEN r ELSE hash
     ELSE hash

\* create_embeddings(texts) for n texts: the vectors returned and the active
\* provider state it leaves
CreateEmbeddings(n, rot, out) ==
  LET keep(res) == [res |-> res, active_provider |-> active_provider,
                    active_dimensions |-> active_dimensions]
      st_fallback == keep(FallbackStage(n, out))
      primary ==
        IF primary_provider = "sentence_transformers" /\ sentence_transformer # "absent"
        THEN LET r == create_sentence_transformer_embeddings(n, "primary", out)
             IN IF r.kind = "vectors" THEN keep(r) ELSE st_fallback
        ELSE IF primary_provider \in {"gemini", "gemini_rotation"} /\ gemini_client # "absent"
        THEN LET r == create_gemini_embeddings(n, "primary", out)
             IN IF r.kind = "vectors" THEN keep(r) ELSE st_fallback
        ELSE IF primary_provider = "openai" /\ openai_client # "absent"
        THEN LET r == create_openai_embeddings(n, "primary", out)
             IN IF r.kind = "vectors" THEN keep(r) ELSE st_fallback
        ELSE st_fallback
  IN IF primary_provider = "gemini_rotation" /\ use_rotation
     THEN IF rot = "ok" /\ n > 0
          THEN [res |-> Vectors(n, GEMINI_EMBEDDING_DIMENSION, "gemini_rotation"),
                active_provider |-> "gemini_rotation", active_dimensions |-> dimensions]
          ELSE IF rot # "raise" /\ sentence_transformer # "absent"
          THEN LET r == create_sentence_transformer_embeddings(n, "rotation_st", out)
               IN IF r.kind = "vectors"
                  THEN [res |-> r, active_provider |-> "sentence_transformers",
                        active_dimensions |-> SENTENCE_TRANSFORMER_DIM]
                  ELSE primary
          ELSE primary
     ELSE primary

\* result[0] if result else self._create_fallback_embedding(text); the except
\* clause around create_embeddings returns the hash-based vector as well
FirstOrFallback(r) ==
  IF r.vectors # <<>> THEN Vectors(1, r.vectors[1], r.provider)
  ELSE Vectors(1, create_fallback_embedding, "fallback")

\* the dimension counts of the mirror: the chunks loaded at start-up come first
DimensionCount(d) ==
  Cardinality({i \in 1 .. Len(in_memory_vectors) : in_memory_vectors[i].embedding.dim = d})
  + (IF chroma_dim = d THEN preloaded ELSE 0)

MirrorDims ==
  {in_memory_vectors[i].embedding.dim : i \in 1 .. Len(in_memory_vectors)}
  \cup (IF preloaded > 0 THEN {chroma_dim} ELSE {})

\* position of the first chunk of dimension d in the mirror
FirstSeen(d) ==
  IF preloaded > 0 /\ chroma_dim = d THEN 0
  ELSE CHOOSE i \in 1 .. Len(in_memory_vectors) :
         /\ in_memory_vectors[i].embedding.dim = d
         /\ \A j \in 1 .. (i - 1) : in_memory_vectors[j].embedding.dim # d

\* max(dimension_counts.items(), key=count): the first dimension of maximal count
MajorityDimension ==
  CHOOSE d \in MirrorDims :
    \A e \in MirrorDims :
       \/ DimensionCount(d) > DimensionCount(e)
       \/ (DimensionCount(d) = DimensionCount(e) /\ FirstSeen(d) <= FirstSeen(e))

\* create_single_embedding(text): the vector returned
CreateSingleEmbedding(rot, out, count_fails) ==
  LET default == FirstOrFallback(CreateEmbeddings(1, rot, out).res)
      majority ==
        IF MirrorDims # {}
        THEN IF MajorityDimension = SENTENCE_TRANSFORMER_DIM /\ sentence_transformer # "absent"
             THEN LET r == create_sentence_transformer_embeddings(1, "majority", out)
                  IN IF r.kind = "vectors" THEN FirstOrFallback(r) ELSE default
             ELSE IF MajorityDimension = GEMINI_EMBEDDING_DIMENSION /\ gemini_client # "absent"
             THEN LET r == create_gemini_embeddings(1, "majority", out)
                  IN IF r.kind = "vectors" THEN FirstOrFallback(r) ELSE default
             ELSE default
        ELSE default
      stored ==
        IF chroma_collection /\ ~count_fails /\ ChromaCount > DOC_COUNT_HEURISTIC
        THEN LET r == create_sentence_transformer_embeddings(1, "forced", out)
             IN IF r.kind = "vectors" THEN FirstOrFallback(r) ELSE majority
        ELSE majority
  IN IF active_provider = "sentence_transformers" /\ sentence_transformer # "absent"
     THEN LET r == create_sentence_transformer_embeddings(1, "active", out)
          IN IF r.kind = "vectors" THEN FirstOrFallback(r) ELSE stored
     ELSE IF active_provider = "gemini" /\ gemini_client # "absent"
     THEN LET r == create_gemini_embeddings(1, "active", out)
          IN IF r.kind = "vectors" THEN FirstOrFallback(r) ELSE stored
     ELSE stored

create_embeddings(n, rot, out) ==
  LET c == CreateEmbeddings(n, rot, out)
  IN /\ emb_out' = [op |-> "create_embeddings", n |-> n, kind |-> c.res.kind,
                    vectors |-> c.res.vectors, provider |-> c.res.provider]
     /\ active_provider' = c.active_provider
     /\ active_dimensions' = c.active_dimensions
     /\ UNCHANGED <<gemini_client, openai_client, sentence_transformer, primary_provider,
                    fallback_provider, dimensions, use_rotation>>

create_single_embedding(rot, out, count_fails) ==
  LET r == CreateSingleEmbedding(rot, out, count_fails)
      c == CreateEmbeddings(1, rot, out)
  IN /\ count_fails => chroma_collection
     /\ emb_out' = [op |-> "create_single_embedding", n |-> 1, kind |-> r.kind,
                    vectors |-> r.vectors, provider |-> r.provider]
     /\ UNCHANGED <<gemini_client, openai_client, sentence_transformer, primary_provider,
                    fallback_provider, dimensions, use_rotation, active_provider,
                    active_dimensions>>

\* the rotation service answers only where it is called
RotationCalls == IF use_rotation THEN RotationOutcomes ELSE {"None"}

\* the embeddings service reads the store and writes neither it nor the
\* rotation service
EmbeddingsFrame == UNCHANGED <<rotVars, storeVars, callVars>>

NextEmbeddings ==
  \/ \E n \in 0 .. MaxTexts, rot \in RotationCalls, out \in Outcomes :
        create_embeddings(n, rot, out) /\ EmbeddingsFrame
  \/ \E rot \in RotationCalls, out \in Outcomes, count_fails \in BOOLEAN :
        create_single_embedding(rot, out, count_fails) /\ EmbeddingsFrame

\* the store as the embeddings service can find it: a chunk re-embedded and
\* upserted again in any dimensions, kept by the mirror while ChromaDB was
\* absent or rejected the batches
InitStoreView ==
  /\ chroma_collection \in BOOLEAN
  /\ chroma_docs = <<>>
  /\ preloaded \in (IF chroma_collection THEN {0, DOC_COUNT_HEURISTIC + 1} ELSE {0})
  /\ chroma_dim \in (IF preloaded > 0 THEN EmbDims ELSE {None})
  /\ in_memory_vectors \in UNION {[1 .. n -> {Chunk(1, d) : d \in EmbDims}] : n \in 0 .. MaxMem}
  /\ up = IdleUpsert
  /\ found = NoSearch
  /\ deleted = NoDelete

\* one create_embeddings_with_rotation call over several sub-batches, and
\* create_embeddings of the embeddings service, which never calls the rotation
\* service (use_rotation stays False); the two share no state, so the
\* service is exercised before the call starts
NextBatches ==
  \/ \E nb \in 0 .. MaxSubBatches :
        /\ req[1].pc = "idle" /\ create_embeddings_with_rotation(1, nb)
        /\ RotationFrame
  \/ ProviderSuccess(1) /\ RotationFrame
  \/ \E code \in ApiErrorCodes : ProviderApiError(1, code) /\ RotationFrame
  \/ ProviderException(1) /\ RotationFrame
  \/ \E n \in 0 .. MaxTexts, rot \in RotationCalls, out \in Outcomes :
        /\ req[1].pc = "idle" /\ create_embeddings(n, rot, out)
        /\ UNCHANGED <<rotVars, storeVars, callVars>>

NextRotation ==
  \/ \E r \in Reqs, nb \in 0 .. MaxBatches :
        create_embeddings_with_rotation(r, nb) /\ RotationFrame
  \/ \E r \in Reqs : generate_content_with_rotation(r) /\ RotationFrame
  \/ \E r \in Reqs : ProviderSuccess(r) /\ RotationFrame
  \/ \E r \in Reqs, code \in ApiErrorCodes : ProviderApiError(r, code) /\ RotationFrame
  \/ \E r \in Reqs : ProviderException(r) /\ RotationFrame
  \/ Tick /\ RotationFrame

(***************************************************************************)
(* Specifications                                                          *)
(***************************************************************************)

RotationIdle ==
  /\ current_key_index = 0
  /\ now = 0
  /\ clients = Keys
  /\ key_status = [k \in Keys |-> FreshStatus]
  /\ req = [r \in Reqs |-> IdleReq]
  /\ quotaRun = [r \in Reqs |-> FALSE]
  /\ dupReport = [r \in Reqs |-> FALSE]

StoreIdle ==
  /\ chroma_collection = FALSE
  /\ chroma_docs = <<>>
  /\ chroma_dim = None
  /\ preloaded = 0
  /\ in_memory_vectors = <<>>
  /\ up = IdleUpsert
  /\ found = NoSearch
  /\ deleted = NoDelete

EmbeddingsIdle ==
  /\ gemini_client = "absent"
  /\ openai_client = "absent"
  /\ sentence_transformer = "absent"
  /\ primary_provider = "fallback"
  /\ fallback_provider = NoProvider
  /\ dimensions = FALLBACK_DIM
  /\ use_rotation = FALSE
  /\ active_provider = NoProvider
  /\ active_dimensions = None
  /\ emb_out = NoEmbedding

CallerIdle == mq = NoMultiQuery /\ hy = NoHybrid /\ IndexIdle

\* the rotation service alone: the store and the embeddings service stay as constructed
RotationStart == InitRotation /\ StoreIdle /\ EmbeddingsIdle /\ CallerIdle

SpecRotation ==
  /\ RotationStart
  /\ [][NextRotation]_vars

\* the vector store alone
StoreStart == InitStore /\ RotationIdle /\ EmbeddingsIdle /\ CallerIdle

SpecStore ==
  /\ StoreStart
  /\ [][NextStore]_vars

\* the embeddings service over a store that holds chunks
EmbeddingsStart == InitEmbeddings /\ InitStoreView /\ RotationIdle /\ CallerIdle

SpecEmbeddings ==
  /\ EmbeddingsStart
  /\ [][NextEmbeddings]_vars

\* multi-query searches over a loaded store
MultiQueryStart ==
  InitStoreLoaded /\ InitMultiQuery /\ hy = NoHybrid /\ IndexIdle /\ RotationIdle
    /\ EmbeddingsIdle

SpecMultiQuery ==
  /\ MultiQueryStart
  /\ [][NextMultiQuery]_vars

\* hybrid searches over an indexed corpus
HybridStart ==
  InitHybrid /\ IndexIdle /\ mq = NoMultiQuery /\ StoreIdle /\ RotationIdle
    /\ EmbeddingsIdle

\* the hybrid service from its construction: indexing and searching
IndexStart ==
  InitIndex /\ hy = NoHybrid /\ mq = NoMultiQuery /\ StoreIdle /\ RotationIdle
    /\ EmbeddingsIdle

SpecIndex ==
  /\ IndexStart
  /\ [][NextIndex]_vars

SpecHybrid ==
  /\ HybridStart
  /\ [][NextHybrid]_vars

BatchesStart == InitEmbeddings /\ RotationIdle /\ StoreIdle /\ CallerIdle

SpecBatches ==
  /\ BatchesStart
  /\ [][NextBatches]_vars

LayersStart == InitLayers /\ RotationIdle /\ EmbeddingsIdle /\ CallerIdle

SpecLayers ==
  /\ LayersStart
  /\ [][NextLayers]_vars

(***************************************************************************)
(* Properties of the rotation service                                      *)
(***************************************************************************)

NoUsable(ks) == \A k \in Keys : ~Usable(ks, k)

\* call r issues a provider request in this step (first attempt or a retry)
Issued(r) == req'[r].pc = "awaiting" /\ req'[r] # req[r]

\* C3: once a credential is invalid, no later request attempt is issued with
\* it (stated as in the specification; the code issues the request with the
\* current credential without looking at its status).
C3_InvalidNeverAcquired ==
  [][\A r \in Reqs :
       Issued(r) => StatusOf(key_status, req'[r].key) # "invalid"]_vars

\* C4: invalid is terminal: a credential that is invalid stays invalid in
\* every step (request outcomes, rotations, clock advances).
C4_InvalidIsTerminal ==
  [][\A k \in Keys :
       StatusOf(key_status, k) = "invalid" => StatusOf(key_status', k) = "invalid"]_vars

\* C5: a call that started with exactly one usable credential (the others
\* invalid or within cool-down) and receives only 429 answers makes at most
\* NumKeys failure reports; the report on the usable credential ends it with
\* None, and whenever it ends no credential is usable.
C5_RotationExhaustionBounded ==
  [][\A r \in Reqs :
       (quotaRun[r] /\ ProviderApiError(r, 429)) =>
          /\ req[r].attempt + 1 <= NumKeys
          /\ Usable(key_status, req[r].key) => req'[r] = DoneReq("None")
          /\ req'[r].pc = "done" =>
               (req'[r].result = "None" /\ NoUsable(key_status'))
          /\ req'[r].pc = "awaiting" => req'[r].attempt < NumKeys]_vars

\* a call that started with one usable credential got only 429 answers and
\* has returned None with every credential unusable
C5_Witness ==
  \E r \in Reqs :
     /\ quotaRun[r]
     /\ req[r] = DoneReq("None")
     /\ NoUsable(key_status)
     /\ \E k \in Keys : key_status[k].quota_exhausted

\* C6: a request issued with a credential that was quota_exhausted and whose
\* cool-down has passed finds that credential active again.
C6_CooldownRecovery ==
  [][\A r \in Reqs :
       (Issued(r) /\ CooledDown(key_status, req'[r].key, now)) =>
          Usable(key_status', req'[r].key)]_vars

\* C7: a failure report for a credential whose failure was already reported
\* by a concurrent call leaves the credential's record as it is (the
\* credential is penalized once).
C7_AtomicFailureReporting ==
  [][\A r \in Reqs, code \in ApiErrorCodes :
       (dupReport[r] /\ ProviderApiError(r, code)) =>
          key_status'[req[r].key] = key_status[req[r].key]]_vars

\* C9: a call returns None only when no credential is usable.
C9_NoneOnlyWhenAllExhausted ==
  [][\A r \in Reqs :
       (req'[r] # req[r] /\ req'[r] = DoneReq("None")) => NoUsable(key_status')]_vars

(***************************************************************************)
(* Properties of the vector store                                          *)
(***************************************************************************)

\* C1: no result of search_similar_documents is a chunk whose embedding
\* length differs from the length of the query embedding, on the ChromaDB
\* path and on the in-memory path.
C1_DimensionSafety ==
  \A i \in 1 .. Len(found.results) : found.results[i].dim = found.query.dim

\* a search served from a mirror that also holds a chunk of another dimension
\* whose similarity to the query reaches the threshold, with a result returned
C1_Witness ==
  /\ found.served_by = "memory"
  /\ found.results # <<>>
  /\ \E i \in 1 .. Len(in_memory_vectors) :
        /\ in_memory_vectors[i].embedding.dim # found.query.dim
        /\ cosine_similarity(found.query.vec, in_memory_vectors[i].embedding.vec)
             >= SIMILARITY_THRESHOLD

\* C10: upsert_documents returns True for every non-empty batch, and on its
\* return every document of the batch is in the in-memory mirror.
C10_UpsertMirrorsEveryChunk ==
  (up.pc = "done" /\ up.docs # <<>>) =>
     /\ up.ret = TRUE
     /\ \A i \in 1 .. Len(up.docs) :
           \E j \in 1 .. Len(in_memory_vectors) : in_memory_vectors[j] = up.docs[i]

\* a returned upsert of a batch of two dimensions of which ChromaDB wrote the
\* first document before it raised
C10_Witness ==
  /\ up.pc = "done" /\ up.ret = TRUE
  /\ Len(up.docs) = 2
  /\ up.docs[1].embedding.dim # up.docs[2].embedding.dim
  /\ up.docs[1].id # up.docs[2].id
  /\ up.docs[1].id \in DOMAIN chroma_docs
  /\ chroma_docs[up.docs[1].id] = up.docs[1]
  /\ up.docs[2].id \notin DOMAIN chroma_docs

(***************************************************************************)
(* Properties of the embeddings service                                    *)
(***************************************************************************)

AllOk == [s \in Sites |-> "ok"]

\* a provider that produces vectors of dimension d was created
ProviderAvailable(d) ==
  \/ d = SENTENCE_TRANSFORMER_DIM /\ sentence_transformer = "ok"
  \/ d = GEMINI_EMBEDDING_DIMENSION /\ gemini_client = "ok"
  \/ d = OPENAI_DIM /\ openai_client = "ok"

\* C2: when the store holds chunks and a provider of their majority dimension
\* is available (and no provider call fails), create_single_embedding returns
\* a vector of the majority dimension.
C2_QueryHasMajorityDimension ==
  [][\A rot \in RotationOutcomes, count_fails \in BOOLEAN :
       ( /\ create_single_embedding(rot, AllOk, count_fails)
         /\ MirrorDims # {}
         /\ ProviderAvailable(MajorityDimension) )
       => emb_out'.vectors = <<MajorityDimension>>]_vars

\* C8: create_embeddings and create_single_embedding never raise; the batch
\* call returns one vector per text and the single call one vector.
C8_OrchestratorNeverFails ==
  emb_out.op # "none" =>
     /\ emb_out.kind = "vectors"
     /\ Len(emb_out.vectors) = emb_out.n

\* a batch call in which the remote and the local provider were created and
\* both failed: the vectors come from the hash-based fallback
C8_Witness ==
  /\ emb_out.op = "create_embeddings"
  /\ emb_out.n > 1
  /\ emb_out.kind = "vectors"
  /\ emb_out.provider = "fallback"
  /\ gemini_client = "ok"
  /\ sentence_transformer = "ok"

\* the ids of the chunks in the mirror
MirrorIds == {in_memory_vectors[i].id : i \in 1 .. Len(in_memory_vectors)}

\* the mirror holds the chunks of the collection: the same ids, one entry each
MirrorMatchesChroma ==
  /\ MirrorIds = DOMAIN chroma_docs
  /\ \A i, j \in 1 .. Len(in_memory_vectors) :
        in_memory_vectors[i].id = in_memory_vectors[j].id => i = j

\* C11: an upsert whose ChromaDB write succeeded keeps the mirror equal to the
\* collection: the same chunk ids, one mirror entry per id, also when the id
\* was stored before.
C11_WriteThroughMirror ==
  [][(ChromaUpsertReturns /\ MirrorMatchesChroma) => MirrorMatchesChroma']_vars

\* the ids of the chunks of a result list
ResultIds(results) == {results[i].id : i \in 1 .. Len(results)}

\* the mirror and the collection hold the same chunks, one mirror entry each
SameStoredChunks ==
  /\ MirrorMatchesChroma
  /\ \A i \in 1 .. Len(in_memory_vectors) :
        chroma_docs[in_memory_vectors[i].id] = in_memory_vectors[i]

\* C12: over the same stored chunks a search served by ChromaDB returns the
\* same set of chunks as the in-memory search for the same query, top_k,
\* filter and threshold.
C12_FallbackSameSemantics ==
  (found.served_by = "chroma" /\ SameStoredChunks) =>
     ResultIds(found.results)
       = ResultIds(MemorySearch(in_memory_vectors, found.query, found.top_k,
                                found.filter, found.threshold))

\* the ChromaDB branch of the last search could not have answered: the
\* collection rejects the query's length or the count heuristic skips it
ChromaBranchRaised ==
  \/ ChromaQueryRaises(found.query)
  \/ (ChromaCount > DOC_COUNT_HEURISTIC /\ found.query.dim = GEMINI_EMBEDDING_DIMENSION)

\* C13: a search never ends in the exception of its ChromaDB branch: when the
\* branch raised, the call returned the result of the in-memory search for
\* the same arguments.
C13_ErrorsDegradeToMirror ==
  /\ found.served_by # "raised"
  /\ (found.served_by # "none" /\ chroma_collection /\ ChromaBranchRaised) =>
        found = Searched("memory", found.query, found.top_k, found.filter, found.threshold,
                         MemorySearch(in_memory_vectors, found.query, found.top_k,
                                      found.filter, found.threshold))
  /\ found.served_by = "memory" =>
        found.results = MemorySearch(in_memory_vectors, found.query, found.top_k,
                                     found.filter, found.threshold)

\* a search of a collection of the query's dimensionality that was answered
\* from the mirror, with a chunk found there
C13_Witness ==
  /\ chroma_collection
  /\ chroma_dim = found.query.dim
  /\ ChromaCount <= DOC_COUNT_HEURISTIC
  /\ found.served_by = "memory"
  /\ found.results # <<>>

(***************************************************************************)
(* Properties of the multi-query search                                    *)
(***************************************************************************)

\* the variants whose own search returned chunk id
VariantsWith(id) ==
  {i \in 1 .. Len(mq.queries) :
     \E k \in 1 .. Len(VariantResults(mq, i)) : VariantResults(mq, i)[k].id = id}

\* the scores the variants' own searches gave chunk id
ScoresOf(id) ==
  UNION {{VariantResults(mq, i)[j].score :
            j \in {j \in 1 .. Len(VariantResults(mq, i)) :
                     VariantResults(mq, i)[j].id = id}} : i \in 1 .. Len(mq.queries)}

SetMax(S) == CHOOSE x \in S : \A y \in S : y <= x

\* C14: a returned chunk that one query vector found keeps that score and is
\* not flagged multi_match; a returned chunk that two or more query vectors
\* found has the score min(1.0, max of its per-vector scores + 0.1) and is
\* flagged multi_match (stated as in the specification; the code adds the
\* bonus once per further match).
C14_MultiMatchMerge ==
  mq.pc = "returned" =>
    \A k \in 1 .. Len(mq.results) :
       LET r == mq.results[k]
           scores == ScoresOf(r.id)
       IN IF Cardinality(VariantsWith(r.id)) = 1
          THEN r.score \in scores /\ ~r.multi_match
          ELSE r.score = Min(100, SetMax(scores) + MULTI_MATCH_BONUS) /\ r.multi_match

\* C15: the returned list is in descending order of merged score, chunks of
\* equal merged score are in order of chunk id, no chunk id occurs twice and
\* the list has at most top_k entries (stated as in the specification; the
\* code sorts on the score alone and leaves equal scores in the order in
\* which the variants found them).
C15_DeterministicMerge ==
  mq.pc = "returned" =>
    /\ Len(mq.results) <= mq.top_k
    /\ \A i, j \in 1 .. Len(mq.results) :
          i < j =>
            /\ mq.results[i].id # mq.results[j].id
            /\ mq.results[i].score >= mq.results[j].score
            /\ mq.results[i].score = mq.results[j].score =>
                  mq.results[i].id < mq.results[j].id

\* the cosine similarity of the stored embedding of chunk id to query q
RawSimilarity(id, q) == cosine_similarity(q.vec, VecOf(id))

\* C16: every chunk that search_similar_documents_multi_query returns has a
\* raw similarity of at least similarity_threshold under at least one of the
\* query vectors, so the list is empty when no stored chunk reaches the
\* threshold (stated as in the specification; the code searches each variant
\* with a lowered threshold and compares the boosted score with the threshold).
C16_ThresholdRespected ==
  mq.pc = "returned" =>
    \A k \in 1 .. Len(mq.results) :
       \E i \in 1 .. Len(mq.queries) :
          RawSimilarity(mq.results[k].id, mq.queries[i]) >= mq.threshold

(***************************************************************************)
(* Properties of the deletions                                             *)
(***************************************************************************)

Sources == {SourceOf(id) : id \in ChunkIds}

\* the ids of the chunks of source s in a collection and in a mirror
ChromaWithSource(col, s) == {i \in DOMAIN col : col[i].metadata.source = s}
MirrorWithSource(mem, s) == {mem[i].id : i \in {i \in 1 .. Len(mem) : mem[i].metadata.source = s}}

\* C17: delete_documents_by_source(s) reports a removal exactly when chunks
\* of source s were stored, leaves no chunk of source s in the durable
\* backend or in the mirror, and called again at once reports that nothing
\* was removed (stated as in the specification; the code reports success
\* after the ChromaDB deletion raised and left its chunks in place).
C17_DeleteBySourceIdempotent ==
  [][\A s \in Sources, chroma_fails \in BOOLEAN :
       delete_documents_by_source(s, chroma_fails) =>
         /\ deleted'.ret = (ChromaWithSource(chroma_docs, s)
                              \cup MirrorWithSource(in_memory_vectors, s) # {})
         /\ ChromaWithSource(chroma_docs', s) = {}
         /\ MirrorWithSource(in_memory_vectors', s) = {}
         /\ (deleted.op = "source" /\ deleted.source = s) => ~deleted'.ret]_vars

\* the chunks of the mirror whose source is not s, in their order
MirrorOfOtherSources(mem, s) == SelectSeq(mem, LAMBDA v : v.metadata.source # s)

\* C18: delete_documents_by_source(s) leaves every chunk whose source is not
\* exactly s unchanged in the durable backend and in the mirror, also when s
\* is a prefix of that source.
C18_DeleteBySourceExactMatch ==
  [][\A s \in Sources, chroma_fails \in BOOLEAN :
       delete_documents_by_source(s, chroma_fails) =>
         /\ \A i \in DOMAIN chroma_docs :
               chroma_docs[i].metadata.source # s =>
                  i \in DOMAIN chroma_docs' /\ chroma_docs'[i] = chroma_docs[i]
         /\ MirrorOfOtherSources(in_memory_vectors', s)
              = MirrorOfOtherSources(in_memory_vectors, s)]_vars

\* a deletion by the source doc.txt has run while doc.txt.bak was stored in
\* both layers and removed chunks of doc.txt from both of them
C18_Witness ==
  /\ deleted.op = "source"
  /\ deleted.source = "doc.txt"
  /\ deleted.chroma_deleted > 0
  /\ deleted.memory_deleted > 0
  /\ ChromaWithSource(chroma_docs, "doc.txt.bak") # {}
  /\ MirrorWithSource(in_memory_vectors, "doc.txt.bak") # {}

\* C19: after delete_documents(ids) returned True no chunk whose id is in
\* ids is left in the durable backend or in the mirror (stated as in the
\* specification; the code removes the chunks from the mirror only).
C19_DeleteByIdRemovesEverywhere ==
  [][\A ids \in SUBSET ChunkIds :
       (ids # {} /\ delete_documents(ids) /\ deleted'.ret) =>
         /\ ids \cap DOMAIN chroma_docs' = {}
         /\ ids \cap MirrorIds' = {}]_vars

(***************************************************************************)
(* Properties of the hybrid search                                         *)
(***************************************************************************)

\* the fused entries of document id
FusedOf(id) ==
  {i \in 1 .. Len(hy.combined_results) : hy.combined_results[i].document_id = id}

\* C20: in the fused set of hybrid_search a document that only the lexical
\* branch returned has 1.5 x its lexical score and the type bm25, one that
\* only the semantic branch returned has its semantic score, one that both
\* returned has max(1.5 x lexical score, 1.2 x semantic score) and the type
\* hybrid, each of them occurs once and no other document occurs (whenever
\* the search reaches the fusion).
C20_ScoreFusion ==
  (hy.pc = "returned" /\ ~hy.raised) =>
    \A id \in DocIds :
       LET lex == hy.lexical[id]
           sem == hy.semantic[id]
       IN IF lex = None /\ sem = None
          THEN FusedOf(id) = {}
          ELSE /\ Cardinality(FusedOf(id)) = 1
               /\ \A i \in FusedOf(id) :
                     LET fused == hy.combined_results[i]
                     IN IF sem = None
                        THEN /\ 10 * fused.hybrid_score = 15 * lex
                             /\ fused.search_type = "bm25"
                        ELSE IF lex = None
                        THEN /\ fused.hybrid_score = sem
                             /\ fused.search_type = "semantic"
                        ELSE /\ 10 * fused.hybrid_score = Max(15 * lex, 12 * sem)
                             /\ fused.search_type = "hybrid"

\* a search returned with a lexical-only, a semantic-only or a twice-found
\* document, the semantic branch deciding the score of a twice-found one
C20_Witness ==
  /\ hy.pc = "returned"
  /\ \E a, b \in DocIds :
        /\ hy.lexical[a] # None /\ hy.semantic[a] = None
        /\ hy.lexical[b] # None /\ hy.semantic[b] # None
        /\ 12 * hy.semantic[b] > 15 * hy.lexical[b]
        /\ hy.final_results # <<>>

\* the document ids of a list of results
DocumentIds(results) == {results[i].document_id : i \in 1 .. Len(results)}

\* C21: when the re-ranking does not run, hybrid_search returns the fused
\* candidates in descending order of fused score, cut to the first top_k: the
\* returned entries are fused entries, none of the others has a higher fused
\* score, and the list is as long as top_k and the fused set allow.
C21_FusionOrderAndTruncation ==
  (hy.pc = "returned" /\ ~hy.raised /\ (~hy.rerank \/ hy.cross = "absent")) =>
    /\ Len(hy.final_results) = Min(hy.top_k, Len(hy.combined_results))
    /\ \A i \in 1 .. Len(hy.final_results) :
          /\ \E k \in FusedOf(hy.final_results[i].document_id) :
                hy.combined_results[k] = hy.final_results[i]
          /\ \A j \in 1 .. Len(hy.final_results) :
                i < j => hy.final_results[i].hybrid_score >= hy.final_results[j].hybrid_score
          /\ \A k \in 1 .. Len(hy.combined_results) :
                hy.combined_results[k].document_id \notin DocumentIds(hy.final_results) =>
                   hy.combined_results[k].hybrid_score <= hy.final_results[i].hybrid_score

\* without re-ranking, a document of the semantic branch alone is returned
\* before a document of the lexical branch alone whose boosted score is lower
C21_Witness ==
  /\ hy.pc = "returned"
  /\ ~hy.rerank
  /\ Len(hy.final_results) = 2
  /\ hy.final_results[1].search_type = "semantic"
  /\ hy.final_results[2].search_type = "bm25"
  /\ hy.final_results[2].hybrid_score < hy.final_results[1].hybrid_score
  /\ hy.final_results[2].score < hy.final_results[2].hybrid_score

\* the fused candidates in fusion order: descending hybrid_score, equal
\* scores in the order in which the branches added them
FusionOrder ==
  LET order == StableDescending([i \in 1 .. Len(hy.combined_results) |->
                                   hy.combined_results[i].hybrid_score])
  IN [i \in 1 .. Len(hy.combined_results) |-> hy.combined_results[order[i]]]

\* the position of document id among the first 15 of the fusion order (0: not among them)
TopNPosition(id) ==
  LET at == {k \in 1 .. Min(RERANK_CANDIDATES, Len(FusionOrder)) :
               FusionOrder[k].document_id = id}
  IN IF at = {} THEN 0 ELSE CHOOSE k \in at : TRUE

C23_EmptyCorpusOrQuery ==
  (hy.pc = "returned" /\ (ix.query_tokens = "empty" \/ ix.documents = 0)) =>
     hy.final_results = <<>>

\* C24: every result of hybrid_search has a fused score between 0 and 1
\* (stated as in the specification; the code multiplies the unbounded BM25
\* score and keeps a negative cosine score as it is).
C24_ScoresNormalized ==
  hy.pc = "returned" =>
    \A i \in 1 .. Len(hy.final_results) :
       /\ 0 <= hy.final_results[i].hybrid_score
       /\ hy.final_results[i].hybrid_score <= 100

(***************************************************************************)
(* Properties of concurrent calls on the store                             *)
(***************************************************************************)

Blocked(ks, k, t) == ~Usable(ks, k) /\ ~CooledDown(ks, k, t)

\* C26: the scan that follows a quota-exhaustion failure looks at each
\* credential at most once; when it succeeds the current credential is
\* active and not quota_exhausted and every credential it passed over is
\* invalid or within its cool-down; when it fails every credential is
\* invalid or within its cool-down, the current index is the one before the
\* scan and the call returns None.
C26_RingScanOutcome ==
  [][\A r \in Reqs :
       ProviderApiError(r, 429) =>
         LET rot == rotate_to_next_key(current_key_index,
                                       handle_api_error(key_status, req[r].key, 429, now),
                                       now)
             n == Len(rot.scanned)
         IN /\ \A i, j \in 1 .. n : rot.scanned[i] = rot.scanned[j] => i = j
            /\ rot.ok =>
                  /\ rot.scanned[n] = rot.idx
                  /\ Usable(rot.ks, rot.idx)
                  /\ \A i \in 1 .. n - 1 : Blocked(rot.ks, rot.scanned[i], now)
            /\ ~rot.ok =>
                  /\ \A k \in Keys : Blocked(rot.ks, k, now)
                  /\ rot.idx = current_key_index
                  /\ current_key_index' = current_key_index
                  /\ req'[r] = DoneReq("None")]_vars

\* a call retries on a usable credential after a 429 whose scan passed over
\* an exhausted credential: the other credential is quota_exhausted and the
\* ring moved on to the credential of the retry
C26_Witness ==
  \E r \in Reqs, k \in Keys :
     /\ req[r].pc = "awaiting"
     /\ req[r].attempt > 0
     /\ req[r].key = current_key_index
     /\ Usable(key_status, req[r].key)
     /\ k # req[r].key
     /\ key_status[k].quota_exhausted

\* C27: when a request fails with 401 or 403 on the current credential, the
\* credential is marked invalid and the ring is advanced: after the failure
\* is handled the current credential is a different, usable one whenever
\* another usable credential exists.
C27_AdvanceOnInvalid ==
  [][\A r \in Reqs, code \in {401, 403} :
       (ProviderApiError(r, code) /\ req[r].key = current_key_index) =>
          /\ ~key_status'[req[r].key].active
          /\ (\E k \in Keys \ {req[r].key} : Usable(key_status', k)) =>
                /\ current_key_index' # req[r].key
                /\ Usable(key_status', current_key_index')]_vars

\* the step of call r runs _rotate_to_next_key: after a 429, after another
\* exception, or because the current credential has no client
ScanRuns(r) ==
  \/ ProviderApiError(r, 429)
  \/ ProviderException(r)
  \/ /\ current_key_index \notin clients
     /\ \/ \E nb \in 1 .. MaxBatches : create_embeddings_with_rotation(r, nb)
        \/ generate_content_with_rotation(r)
        \/ ProviderSuccess(r) /\ req[r].batches > 1

\* hours since the last error of credential k
Elapsed(k) == now - key_status[k].last_error_time

\* C28: a credential changes from quota_exhausted to active only in a step
\* that runs the rotation scan and only if more than quota_reset_time hours
\* passed since its last error; while no more than quota_reset_time hours
\* passed, a quota_exhausted credential stays quota_exhausted and the scan
\* does not make it the current credential.
C28_LazyCoolDownReset ==
  [][\A k \in Keys :
       key_status[k].quota_exhausted =>
          /\ ~key_status'[k].quota_exhausted =>
                /\ \E r \in Reqs : ScanRuns(r)
                /\ Elapsed(k) > quota_reset_time
                /\ key_status'[k].active
          /\ Elapsed(k) <= quota_reset_time =>
                /\ key_status'[k].quota_exhausted
                /\ ~key_status'[k].active
                /\ current_key_index' = k => current_key_index = k]_vars

\* a credential was reset by a scan: it is active again, its error_count is
\* back to zero and its last error is more than quota_reset_time hours old
C28_Witness ==
  \E k \in Keys :
     /\ Usable(key_status, k)
     /\ key_status[k].last_error_time # None
     /\ key_status[k].error_count = 0
     /\ Elapsed(k) > quota_reset_time
     /\ current_key_index = k

\* the codes of errors.APIError that are neither 429 nor 401/403
TransientCodes == ApiErrorCodes \ {429, 401, 403}

\* C29: a provider error that is neither 429 nor 401/403 increments the
\* error_count of the credential of the call by exactly one and leaves its
\* active and quota_exhausted flags, and every other credential, as they were.
C29_TransientFailure ==
  [][\A r \in Reqs, code \in TransientCodes :
       ProviderApiError(r, code) =>
          LET k == req[r].key
          IN /\ key_status'[k].error_count = key_status[k].error_count + 1
             /\ key_status'[k].active = key_status[k].active
             /\ key_status'[k].quota_exhausted = key_status[k].quota_exhausted
             /\ \A j \in Keys \ {k} : key_status'[j] = key_status[j]]_vars

\* a call returned None after a transient error on the current credential,
\* which is still active and not quota_exhausted with one error counted
C29_Witness ==
  \E r \in Reqs :
     /\ req[r] = DoneReq("None")
     /\ Usable(key_status, current_key_index)
     /\ key_status[current_key_index].error_count = 1
     /\ key_status[current_key_index].last_error_time = now
     /\ \A k \in Keys \ {current_key_index} : key_status[k] = FreshStatus

\* C30: a provider call that ends in a non-API exception (a timeout) has the
\* effect of a transient API error: the error_count, the active and
\* quota_exhausted flags of the credential of the call and the ring index
\* are, after the step, what a transient errors.APIError would have made
\* them, and the credential is marked neither invalid nor quota_exhausted.
C30_TimeoutAsTransient ==
  [][\A r \in Reqs, code \in TransientCodes :
       ProviderException(r) =>
          LET k == req[r].key
              ks1 == handle_api_error(key_status, k, code, now)
          IN /\ key_status'[k].error_count = ks1[k].error_count
             /\ key_status'[k].active = ks1[k].active
             /\ key_status'[k].quota_exhausted = ks1[k].quota_exhausted
             /\ current_key_index' = current_key_index
             /\ key_status[k].active => key_status'[k].active
             /\ ~key_status[k].quota_exhausted => ~key_status'[k].quota_exhausted]_vars

(***************************************************************************)
(* Properties of sub-batch failover, attribution and credential status     *)
(***************************************************************************)

\* C31: when the attempt of call r on its credential fails with 429 and the
\* rotation supplies a credential, the same sub-batch is retried on that
\* credential; a sub-batch is never in its provider call after NumKeys
\* attempts, so its processing ends after at most NumKeys provider calls.
C31_QuotaFailover ==
  [][\A r \in Reqs :
       /\ req[r].pc = "awaiting" => req[r].attempt < NumKeys
       /\ ProviderApiError(r, 429) =>
            LET rot == rotate_to_next_key(current_key_index,
                                          handle_api_error(key_status, req[r].key, 429, now),
                                          now)
            IN rot.ok =>
                 /\ req'[r].pc = "awaiting"
                 /\ req'[r].key = rot.idx
                 /\ req'[r].batches = req[r].batches]_vars

(***************************************************************************)
(* Properties of the provider chain of create_embeddings                   *)
(***************************************************************************)

\* the providers create_embeddings calls before it reaches the hash-based
\* fallback, every one of them failing; rot is the answer of the rotation
\* service
AttemptedBeforeHash(rot) ==
  (IF primary_provider = "gemini_rotation" /\ use_rotation
   THEN {"gemini_rotation"} \cup
        (IF rot # "raise" /\ sentence_transformer # "absent"
         THEN {"sentence_transformers"} ELSE {})
   ELSE {})
  \cup
  (IF primary_provider = "sentence_transformers" /\ sentence_transformer # "absent"
   THEN {"sentence_transformers"}
   ELSE IF primary_provider \in {"gemini", "gemini_rotation"} /\ gemini_client # "absent"
   THEN {"gemini"}
   ELSE IF primary_provider = "openai" /\ openai_client # "absent"
   THEN {"openai"}
   ELSE {})
  \cup
  (IF sentence_transformer # "absent" THEN {"sentence_transformers"} ELSE {})

\* the providers __init__ configured that rank above the hash-based fallback
ConfiguredProviders ==
  ({primary_provider} \ {"fallback"})
  \cup ({fallback_provider} \ {NoProvider})
  \cup (IF sentence_transformer # "absent" THEN {"sentence_transformers"} ELSE {})

\* C32: create_embeddings returns the vectors of the hash-based fallback only
\* after every configured provider that ranks above it (the remote primary,
\* the configured fallback provider, the local model) was attempted in that
\* call.
C32_FallbackOrder ==
  [][\A n \in 0 .. MaxTexts, rot \in RotationCalls, out \in Outcomes :
       (create_embeddings(n, rot, out) /\ emb_out'.provider = "fallback")
       => ConfiguredProviders \subseteq AttemptedBeforeHash(rot)]_vars

\* C33: after a create_embeddings call that returned vectors, active_provider
\* is the provider that produced them and active_dimensions is the length
\* of each of them.
C33_ActiveWriteState ==
  (emb_out.op = "create_embeddings" /\ emb_out.kind = "vectors" /\ emb_out.vectors # <<>>) =>
     /\ active_provider = emb_out.provider
     /\ \A i \in 1 .. Len(emb_out.vectors) : emb_out.vectors[i] = active_dimensions

\* the outcome of the provider call of r is handled in this step
Handled(r) ==
  \/ ProviderSuccess(r)
  \/ \E code \in ApiErrorCodes : ProviderApiError(r, code)
  \/ ProviderException(r)

\* the record of credential j after the reset of _rotate_to_next_key
ResetRecord(j) ==
  [key_status[j] EXCEPT !.quota_exhausted = FALSE, !.active = TRUE, !.error_count = 0]

\* C34 as stated: handling the success or failure of a request issued with
\* credential k leaves the record of every other credential unchanged.
C34_OnlyOwnRecordChanges ==
  [][\A r \in Reqs :
       Handled(r) =>
          \A j \in Keys \ {req[r].key} : key_status'[j] = key_status[j]]_vars

\* C34: handling the success or failure of a request issued with credential
\* k charges the outcome to k, also when the ring index is no longer k: the
\* record of every other credential is unchanged, except that the rotation
\* scan run by the handler resets a credential whose cool-down has passed.
C34_AttributedToOneCredential ==
  [][\A r \in Reqs :
       Handled(r) =>
          \A j \in Keys \ {req[r].key} :
             \/ key_status'[j] = key_status[j]
             \/ /\ CooledDown(key_status, j, now)
                /\ key_status'[j] = ResetRecord(j)]_vars

\* a call is in flight on credential k after a concurrent call's 429 on k was
\* handled: k is quota_exhausted, the ring moved to another credential whose
\* record is untouched
C34_Witness ==
  \E r \in Reqs :
     /\ req[r].pc = "awaiting"
     /\ req[r].key # current_key_index
     /\ key_status[req[r].key].quota_exhausted
     /\ key_status[req[r].key].error_count = 1
     /\ key_status[current_key_index] = FreshStatus

\* C35: a credential that is quota_exhausted and within its cool-down is
\* never used: every attempt of a call, first attempt or retry, is issued
\* with a credential that is active and not quota_exhausted.
C35_ExhaustedNeverUsed ==
  [][\A r \in Reqs :
       Issued(r) =>
          /\ key_status'[req'[r].key].active
          /\ ~key_status'[req'[r].key].quota_exhausted]_vars

(***************************************************************************)
(* Properties of accepted chunks and of the two layers                     *)
(***************************************************************************)

\* the accepted chunk v satisfies the last search
SatisfiesSearch(v) ==
  /\ v.embedding.dim = found.query.dim
  /\ MatchesFilter(v, found.filter)
  /\ cosine_similarity(found.query.vec, v.embedding.vec) >= found.threshold

\* C36: a chunk accepted by upsert_documents and not deleted since (an entry
\* of the mirror, which holds every accepted chunk) is returned by every
\* search it satisfies: same dimension, matching filter, similarity at or
\* above the threshold, and fewer than top_k other satisfying chunks at
\* least as similar.
C36_AcceptedChunkRetrievable ==
  found.served_by # "none" =>
     \A i \in 1 .. Len(in_memory_vectors) :
        LET v == in_memory_vectors[i]
            ahead == {j \in 1 .. Len(in_memory_vectors) \ {i} :
                        /\ SatisfiesSearch(in_memory_vectors[j])
                        /\ cosine_similarity(found.query.vec, in_memory_vectors[j].embedding.vec)
                             >= cosine_similarity(found.query.vec, v.embedding.vec)}
        IN (SatisfiesSearch(v) /\ Cardinality(ahead) < found.top_k)
           => v.id \in ResultIds(found.results)

\* C37: whenever no upsert_documents call is in flight (every upsert and
\* every delete_documents_by_source call completed, in any interleaving),
\* the chunk ids of the mirror are the chunk ids of the ChromaDB collection.
C37_LayersAgree ==
  up.pc \notin {"chroma_await", "chroma_written"} =>
     MirrorIds = DOMAIN chroma_docs

(***************************************************************************)
(* Properties of the lexical index                                         *)
(***************************************************************************)

\* C38: each result of search_bm25 carries the document_id (and content) of
\* the document whose tokens produced its score: the document at position i
\* of the corpus of the BM25 index is document i of self.documents, also
\* when some documents tokenize to no tokens.
C38_LexicalHitsAttributed ==
  hy.pc = "returned" =>
     \A i \in DocIds : hy.lexical[i] # None => ix.tokenized[i] = i

(***************************************************************************)
(* Properties of the vectors of one call                                   *)
(***************************************************************************)

\* C39: the vectors returned by one create_embeddings call all have the same
\* dimension, and create_embeddings_with_rotation returns None or the
\* embeddings of every sub-batch of its input, never those of the
\* sub-batches that preceded a failed one.
C39_WholeCallOneProvider ==
  /\ emb_out.op = "create_embeddings" =>
        \A i, j \in 1 .. Len(emb_out.vectors) : emb_out.vectors[i] = emb_out.vectors[j]
  /\ \A r \in Reqs :
        req[r].pc = "done" =>
           \/ req[r].result = "None" /\ req[r].embeddings = 0
           \/ req[r].result = "ok" /\ req[r].embeddings = req[r].texts

\* the first sub-batch of the call was embedded, a later one failed, and the
\* call returned None
C39_Witness ==
  /\ req[1] = DoneReq("None")
  /\ \E k \in Keys : key_status[k].successful_requests = 1

\* C40: in every reachable state a credential with quota_exhausted set is not
\* active, so every credential is in exactly one of the states active,
\* quota_exhausted and invalid, and the status report's active_keys and
\* quota_exhausted_keys together never exceed total_keys.
C40_StatusExclusive ==
  /\ \A k \in Keys : key_status[k].quota_exhausted => ~key_status[k].active
  /\ \A k \in Keys :
        Cardinality({s \in {"active", "quota_exhausted", "invalid"} :
                       \/ s = "active" /\ key_status[k].active
                       \/ s = "quota_exhausted" /\ key_status[k].quota_exhausted
                       \/ /\ s = "invalid"
                          /\ ~key_status[k].active
                          /\ ~key_status[k].quota_exhausted}) = 1
  /\ get_status_report.active_keys + get_status_report.quota_exhausted_keys
        <= get_status_report.total_keys

\* a credential was reset after its cool-down and counts as active again while
\* another credential is quota_exhausted
C40_Witness ==
  \E j, k \in Keys :
     /\ key_status[j].quota_exhausted
     /\ key_status[k].active
     /\ key_status[k].error_count = 0
     /\ key_status[k].last_error_time # None
     /\ get_status_report.active_keys + get_status_report.quota_exhausted_keys
           = get_status_report.total_keys

====
